---- MODULE Spec2Model ----
(***************************************************************************)
(* Playback and request state machine of the maze-solver front end.        *)
(*                                                                         *)
(* The state is the single React state object of useMazeSolver (the same   *)
(* object the monolithic App component keeps), the requests in flight, the *)
(* position of the promise continuation that is currently running, and the *)
(* bookkeeping of the three effects (playback loop, size change,           *)
(* algorithm change).                                                      *)
(*                                                                         *)
(* Every call of update() is one state update.  Updates issued from an     *)
(* event handler or from an effect flush are applied together; updates     *)
(* issued from a promise continuation (after an await) are applied one at  *)
(* a time, in call order, and nothing else runs between them.              *)
(*                                                                         *)
(* frameProgress is a fixed-point number: ProgressOne stands for 1.0.      *)
(***************************************************************************)
EXTENDS Integers, Sequences, FiniteSets, TLC

\* ---------------------------------------------------------------- bounds
MaxHist == 3
MaxRequests == 3
MaxRequestsUI == 3
MaxRequestsRace == 4
MaxProgress == 3
MaxFrames == 2

\* ------------------------------------------------------- program constants
MIN_SIZE == 15
MAX_SIZE == 100
MinStepDur == 20
MaxStepDur == 1000
ProgressOne == 100
\* rates and weights are kept in hundredths: 100 stands for 1.0
Hundredths == 100

ALGORITHMS == {"pso", "genetic", "firefly", "ant"}

\* ------------------------------------------------------------ input sets
\* elapsed milliseconds between two animation frames
Deltas == {0, 50, 250}
\* elapsed milliseconds between two animation frames, for the clock alone
ClockDeltas == {0, 50, 100, 150, 250}
\* values of the speed slider
Speeds == {50, 100}
\* values typed into the size input
SizeInputs == {12, 20}
\* seeds the maze service returns
Seeds == {0, 7}
\* algorithms selected in the runs explored
AlgorithmChoices == {"pso", "ant"}
\* the layer toggles of the XAI options panel
LayerToggles == {"showVelocities", "showHeatmap", "showTopPerformers",
                 "showMetrics", "showPheromones"}
\* the toggles operated in the runs explored
ToggleChoices == {"showMetrics"}
\* the fields of the state that hold configuration
ConfigFields ==
    {"algorithm", "desiredSize", "speedMs", "selectedPreset",
     "iterations", "swarmSize", "gaPopulation", "gaGenerations",
     "gaMutationRate", "fireflyCount", "fireflyAbsorption", "fireflyIterations",
     "fireflyRandomness", "antCount", "antIterations", "antEvaporationRate",
     "antAlpha", "antBeta"} \cup LayerToggles
\* the tuning controls operated, with the algorithm whose panel shows each and
\* the values entered (the second one is the initial value)
TuningChoices ==
    {[field |-> "iterations", alg |-> "pso", values |-> {0, 240}],
     [field |-> "gaMutationRate", alg |-> "genetic", values |-> {150, 5}],
     [field |-> "fireflyRandomness", alg |-> "firefly", values |-> {0, 20}]}

NoSeed == -1
\* an optional value: null or undefined, or a value that is there
None == [some |-> FALSE]
Some(v) == [some |-> TRUE, val |-> v]
NoSolution == [present |-> FALSE, run |-> 0, solved |-> FALSE]
ApiError == "API request failed"

VARIABLES
    state,          \* the React state object of useMazeSolver
    inflight,       \* requests sent and not yet answered
    nextId,         \* number of requests sent so far
    cont,           \* remaining steps of the running promise continuation
    rafOn,          \* a tick callback is scheduled
    stepDur,        \* step duration captured by the scheduled tick
    playDeps,       \* dependencies the playback effect last ran with
    sizeDep,        \* desiredSize the size effect last ran with
    algDep,         \* algorithm the algorithm effect last ran with
    quota,          \* number of requests the explored run may send
    elapsed,        \* milliseconds of animation time observed by the clock
    last,           \* the operation that produced the current state
    canvas,         \* what the Canvas effect last handed to the renderer
    sidebar         \* the metrics the Sidebar last rendered

vars == <<state, inflight, nextId, cont, rafOn, stepDur, playDeps, sizeDep,
          algDep, quota, elapsed, last, canvas,
          sidebar>>

Max(a, b) == IF a >= b THEN a ELSE b
Min(a, b) == IF a <= b THEN a ELSE b

\* Math.round(val / 5) * 5 for non-negative val
Round5(val) == ((2 * val + 5) \div 10) * 5

clamp(val) == Max(MIN_SIZE, Min(MAX_SIZE, Round5(val)))

StepDurOf(speed) == Max(MinStepDur, Min(MaxStepDur, speed))

\* !seed
Falsy(seed) == seed = NoSeed \/ seed = 0

\* the n frames of the history of run `run`, recorded for algorithm `alg`;
\* `solved` is the outcome the solver reported for that run
Frames(run, alg, solved, n) ==
    [i \in 1..n |-> [run |-> run, alg |-> alg, solved |-> solved]]

\* setState(s => ({ ...s, ...changes }))
update(s, changes) ==
    [f \in DOMAIN s |-> IF f \in DOMAIN changes THEN changes[f] ELSE s[f]]

\* resetPlayback that empties the history and leaves the step index alone
resetPlayback_KeepStep(s) ==
    update(s, [isRunning |-> FALSE, history |-> <<>>, frameProgress |-> 0])

resetPlayback(s) ==
    update(s, [isRunning |-> FALSE, history |-> <<>>, currentStep |-> 0,
               frameProgress |-> 0])

\* tick with a playback that wraps around at the last frame
tick_Wrap(s, delta, dur) ==
    LET nextProgress == s.frameProgress + (delta * ProgressOne) \div dur
        nextStep == s.currentStep + 1
    IN  IF nextProgress >= ProgressOne
        THEN IF nextStep >= Len(s.history)
             THEN update(s, [currentStep |-> 0, frameProgress |-> 0])
             ELSE update(s, [currentStep |-> nextStep,
                             frameProgress |-> nextProgress - ProgressOne])
        ELSE update(s, [frameProgress |-> nextProgress])

\* the state updater of one tick, for elapsed time delta and step duration dur
tick(s, delta, dur) ==
    LET nextProgress == s.frameProgress + (delta * ProgressOne) \div dur
        nextStep == s.currentStep + 1
    IN  IF nextProgress >= ProgressOne
        THEN IF nextStep >= Len(s.history)
             THEN update(s, [isRunning |-> FALSE])
             ELSE update(s, [currentStep |-> nextStep,
                             frameProgress |-> nextProgress - ProgressOne])
        ELSE update(s, [frameProgress |-> nextProgress])

\* the synchronous head of fetchMaze
fetchMazeStart(s) ==
    update(s, [loading |-> TRUE, error |-> "", runFailed |-> FALSE])

\* applySolve without the failure policy: every non-empty history is animated
applySolve_NoSnap(s, req, solved, n) ==
    LET hist == Frames(req.id, req.alg, solved, n)
    IN  update(s, [maze |-> req.id,
                   solution |-> [present |-> TRUE, run |-> req.id, solved |-> solved],
                   mazeSeed |-> req.seed,
                   history |-> hist,
                   runFailed |-> ~solved,
                   currentStep |-> 0,
                   frameProgress |-> 0,
                   isRunning |-> Len(hist) > 0])

\* applySolve that starts the playback of every solved run, empty or not
applySolve_StartEmpty(s, req, solved, n) ==
    LET hist == Frames(req.id, req.alg, solved, n)
    IN  update(s, [maze |-> req.id,
                   solution |-> [present |-> TRUE, run |-> req.id, solved |-> solved],
                   mazeSeed |-> req.seed,
                   history |-> hist,
                   runFailed |-> ~solved,
                   currentStep |-> IF ~solved /\ Len(hist) > 0 THEN Len(hist) - 1 ELSE 0,
                   frameProgress |-> IF ~solved /\ Len(hist) > 0 THEN ProgressOne ELSE 0,
                   isRunning |-> solved])

\* the update runSolver applies for a successful solve response
applySolve(s, req, solved, n) ==
    LET hist == Frames(req.id, req.alg, solved, n)
    IN  update(s, [maze |-> req.id,
                   solution |-> [present |-> TRUE, run |-> req.id, solved |-> solved],
                   mazeSeed |-> req.seed,
                   history |-> hist,
                   runFailed |-> ~solved,
                   currentStep |-> IF ~solved /\ Len(hist) > 0 THEN Len(hist) - 1 ELSE 0,
                   frameProgress |-> IF ~solved /\ Len(hist) > 0 THEN ProgressOne ELSE 0,
                   isRunning |-> solved /\ Len(hist) > 0])

\* applyMaze behind a generation check: the response of a superseded
\* request is dropped
applyMaze_DropStale(s, req, seed) ==
    IF req.id = nextId
    THEN update(s, [maze |-> req.id, mazeSeed |-> seed, solution |-> NoSolution])
    ELSE s

\* the first update fetchMaze applies for a successful maze response
applyMaze(s, req, seed) ==
    update(s, [maze |-> req.id, mazeSeed |-> seed, solution |-> NoSolution])

\* handleReset that clears the maze and leaves the playback as it is
handleReset_KeepPlayback(s) ==
    update(s, [maze |-> 0, solution |-> NoSolution, mazeSeed |-> NoSeed,
               error |-> "", runFailed |-> FALSE])

handleReset(s) ==
    update(resetPlayback(s),
           [maze |-> 0, solution |-> NoSolution, mazeSeed |-> NoSeed,
            error |-> "", runFailed |-> FALSE])

\* dependencies without speedMs: the loop is not restarted on a speed change
PlayDepsOf_NoSpeed(s) == <<s.isRunning, Len(s.history), 0>>

PlayDepsOf(s) == <<s.isRunning, Len(s.history), s.speedMs>>

ValidSize(size) == size >= MIN_SIZE /\ size <= MAX_SIZE /\ size % 5 = 0

MazeRequest(id, caller, alg, params) ==
    [id |-> id, kind |-> "maze", caller |-> caller, alg |-> alg, seed |-> NoSeed,
     params |-> params]

SolveRequest(id, alg, seed, params) ==
    [id |-> id, kind |-> "solve", caller |-> "runSolver", alg |-> alg, seed |-> seed,
     params |-> params]

\* the message of the first validation of runSolver that fails, "" if none
ValidationError(s) ==
    IF ~ValidSize(s.desiredSize) THEN "Size must be 5-step multiple"
    ELSE IF s.algorithm = "pso"
    THEN IF s.iterations <= 0 \/ s.swarmSize <= 0
         THEN "Iterations and swarm size must be positive" ELSE ""
    ELSE IF s.algorithm = "genetic"
    THEN IF s.gaPopulation <= 0 \/ s.gaGenerations <= 0
         THEN "Population and generations must be positive"
         ELSE IF s.gaMutationRate <= 0 \/ s.gaMutationRate > Hundredths
         THEN "Mutation rate must be between 0 and 1" ELSE ""
    ELSE IF s.algorithm = "firefly"
    THEN IF s.fireflyCount <= 0 \/ s.fireflyIterations <= 0
         THEN "Fireflies and iterations must be positive"
         ELSE IF s.fireflyAbsorption < 10 \/ s.fireflyAbsorption > 500
         THEN "Absorption must be between 0.1 and 5.0" ELSE ""
    ELSE IF s.algorithm = "ant"
    THEN IF s.antCount <= 0 \/ s.antIterations <= 0
         THEN "Ants and iterations must be positive"
         ELSE IF s.antEvaporationRate < 10 \/ s.antEvaporationRate > 90
         THEN "Evaporation rate must be between 0.1 and 0.9" ELSE ""
    ELSE ""

\* the algorithm-specific parameters runSolver puts into the solve request
TuningParams(s) ==
    IF s.algorithm = "pso"
    THEN [iterations |-> s.iterations, swarm_size |-> s.swarmSize]
    ELSE IF s.algorithm = "genetic"
    THEN [population_size |-> s.gaPopulation, generations |-> s.gaGenerations,
          mutation_rate |-> s.gaMutationRate]
    ELSE IF s.algorithm = "firefly"
    THEN [fireflies |-> s.fireflyCount, absorption |-> s.fireflyAbsorption,
          iterations |-> s.fireflyIterations, randomness |-> s.fireflyRandomness]
    ELSE [ants |-> s.antCount, iterations |-> s.antIterations,
          evaporation_rate |-> s.antEvaporationRate, alpha |-> s.antAlpha,
          beta |-> s.antBeta]

\* requests already sent plus those a running runSolver will still send
Budget ==
    nextId + Cardinality({r \in inflight : r.kind = "maze" /\ r.caller = "runSolver"})

EffectsPending ==
    \/ PlayDepsOf(state) # playDeps
    \/ state.desiredSize # sizeDep
    \/ state.algorithm # algDep

\* no continuation is running and every effect of the last render has run:
\* the event loop is free to deliver a user event
Idle == cont = <<>> /\ ~EffectsPending

InitialState ==
    [maze |-> 0, history |-> <<>>, solution |-> NoSolution, algorithm |-> "pso",
     mazeSeed |-> NoSeed, desiredSize |-> 15, currentStep |-> 0,
     frameProgress |-> 0, isRunning |-> FALSE, loading |-> FALSE, error |-> "",
     speedMs |-> 100, runFailed |-> FALSE,
     iterations |-> 240, swarmSize |-> 70,
     gaPopulation |-> 80, gaGenerations |-> 120, gaMutationRate |-> 5,
     fireflyCount |-> 60, fireflyAbsorption |-> 100, fireflyIterations |-> 200,
     fireflyRandomness |-> 20,
     antCount |-> 60, antIterations |-> 150, antEvaporationRate |-> 50,
     antAlpha |-> 100, antBeta |-> 200,
     showVelocities |-> TRUE, showHeatmap |-> TRUE, showTopPerformers |-> TRUE,
     showMetrics |-> TRUE, showPheromones |-> TRUE,
     selectedPreset |-> "medium"]

Init ==
    /\ state = InitialState
    /\ inflight = {}
    /\ nextId = 0
    /\ cont = <<>>
    /\ rafOn = FALSE
    /\ stepDur = 0
    /\ playDeps = <<FALSE, 0, 0>>
    /\ sizeDep = 0
    /\ algDep = ""
    /\ quota = MaxRequests
    /\ elapsed = 0
    /\ last = "init"
    /\ canvas = None
    /\ sidebar = None

async == <<inflight, nextId, cont, quota, elapsed>>
effects == <<rafOn, stepDur, playDeps, sizeDep, algDep, canvas, sidebar>>

\* ------------------------------------------------------------ user events
SelectAlgorithm(a) ==
    /\ Idle
    /\ a # state.algorithm
    /\ state' = update(state, [algorithm |-> a])
    /\ last' = "SelectAlgorithm"
    /\ UNCHANGED <<async, effects>>

SetDesiredSize(val) ==
    /\ Idle
    /\ clamp(val) # state.desiredSize => Budget < quota
    /\ state' = update(state, [desiredSize |-> clamp(val)])
    /\ last' = "SetDesiredSize"
    /\ UNCHANGED <<async, effects>>

SetSpeed(v) ==
    /\ Idle
    /\ v # state.speedMs
    /\ state' = update(state, [speedMs |-> v])
    /\ last' = "SetSpeed"
    /\ UNCHANGED <<async, effects>>

\* a checkbox of the XAI options panel
ToggleVisible(f) ==
    /\ f = "showVelocities" => state.algorithm = "pso"
    /\ f = "showHeatmap" => state.algorithm = "genetic"
    /\ f = "showPheromones" => state.algorithm = "ant"

ToggleLayer(f) ==
    /\ Idle
    /\ ToggleVisible(f)
    /\ state' = update(state, [g \in {f} |-> ~state[f]])
    /\ last' = "ToggleLayer"
    /\ UNCHANGED <<async, effects>>

Stop ==
    /\ Idle
    /\ state.isRunning
    /\ state' = update(state, [isRunning |-> FALSE])
    /\ last' = "Stop"
    /\ UNCHANGED <<async, effects>>

Reset ==
    /\ Idle
    /\ ~state.loading
    /\ state' = handleReset(state)
    /\ last' = "Reset"
    /\ UNCHANGED <<async, effects>>

\* New Maze button: fetchMaze()
NewMaze ==
    /\ Idle
    /\ ~state.loading
    /\ Budget < quota
    /\ state' = fetchMazeStart(state)
    /\ nextId' = nextId + 1
    /\ inflight' = inflight \cup {MazeRequest(nextId + 1, "fetchMaze", "", <<>>)}
    /\ last' = "NewMaze"
    /\ UNCHANGED <<cont, quota, elapsed, effects>>

\* Start Solver button: runSolver() up to its first await
StartSolver ==
    /\ Idle
    /\ ~state.loading /\ ~state.isRunning
    /\ IF ValidationError(state) # ""
       THEN /\ state' = update(state, [error |-> ValidationError(state)])
            /\ UNCHANGED <<nextId, inflight>>
       ELSE IF Falsy(state.mazeSeed)
       THEN /\ Budget + 2 <= quota
            /\ state' = fetchMazeStart(update(state, [error |-> ""]))
            /\ nextId' = nextId + 1
            /\ inflight' = inflight \cup
                   {MazeRequest(nextId + 1, "runSolver", state.algorithm,
                                TuningParams(state))}
       ELSE /\ Budget < quota
            /\ state' = update(update(state, [error |-> ""]),
                               [loading |-> TRUE, error |-> "", runFailed |-> FALSE])
            /\ nextId' = nextId + 1
            /\ inflight' = inflight \cup
                   {SolveRequest(nextId + 1, state.algorithm, state.mazeSeed,
                                 TuningParams(state))}
    /\ last' = "StartSolver"
    /\ UNCHANGED <<cont, quota, elapsed, effects>>

\* ------------------------------------------------------------- responses
\* fetchMaze after its await, response received: the first update of the
\* try block (success) or of the catch block (failure)
MazeResponse(req, ok, seed) ==
    /\ cont = <<>>
    /\ req \in inflight /\ req.kind = "maze"
    /\ inflight' = inflight \ {req}
    /\ LET resume == IF req.caller = "runSolver"
                     THEN <<[op |-> "resume", alg |-> req.alg,
                             seed |-> IF ok THEN seed ELSE NoSeed,
                             params |-> req.params]>>
                     ELSE <<>>
       IN  IF ok
           THEN /\ state' = applyMaze(state, req, seed)
                /\ cont' = <<[op |-> "resetPlayback", alg |-> "", seed |-> NoSeed,
                              params |-> <<>>],
                             [op |-> "loadingOff", alg |-> "", seed |-> NoSeed,
                              params |-> <<>>]>>
                           \o resume
           ELSE /\ state' = update(state, [error |-> ApiError])
                /\ cont' = <<[op |-> "loadingOff", alg |-> "", seed |-> NoSeed,
                              params |-> <<>>]>>
                           \o resume
    /\ last' = IF ok THEN "MazeResponse" ELSE "MazeFailure"
    /\ UNCHANGED <<nextId, quota, elapsed, effects>>

\* runSolver after its await on the solve request
SolveResponse(req, ok, solved, n) ==
    /\ cont = <<>>
    /\ req \in inflight /\ req.kind = "solve"
    /\ inflight' = inflight \ {req}
    /\ state' = IF ok THEN applySolve(state, req, solved, n)
                ELSE update(state, [error |-> ApiError, runFailed |-> TRUE])
    /\ cont' = <<[op |-> "loadingOff", alg |-> "", seed |-> NoSeed,
                              params |-> <<>>]>>
    /\ last' = IF ok THEN "SolveResponse" ELSE "SolveFailure"
    /\ UNCHANGED <<nextId, quota, elapsed, effects>>

\* fetchMaze, second update of the try block
ContResetPlayback ==
    /\ cont # <<>> /\ Head(cont).op = "resetPlayback"
    /\ state' = resetPlayback(state)
    /\ cont' = Tail(cont)
    /\ last' = "resetPlayback"
    /\ UNCHANGED <<inflight, nextId, quota, elapsed, effects>>

\* ContLoadingOff with a retry: a failed solve request is sent again
ContLoadingOff_Retry ==
    /\ cont # <<>> /\ Head(cont).op = "loadingOff"
    /\ cont' = Tail(cont)
    /\ last' = "loadingOff"
    /\ IF last = "SolveFailure"
       THEN /\ state' = update(state, [loading |-> TRUE, error |-> ""])
            /\ nextId' = nextId + 1
            /\ inflight' = inflight \cup
                   {SolveRequest(nextId + 1, state.algorithm, state.mazeSeed,
                                 TuningParams(state))}
       ELSE /\ state' = update(state, [loading |-> FALSE])
            /\ UNCHANGED <<inflight, nextId>>
    /\ UNCHANGED <<quota, elapsed, effects>>

\* the finally block of fetchMaze and of runSolver
ContLoadingOff ==
    /\ cont # <<>> /\ Head(cont).op = "loadingOff"
    /\ state' = update(state, [loading |-> FALSE])
    /\ cont' = Tail(cont)
    /\ last' = "loadingOff"
    /\ UNCHANGED <<inflight, nextId, quota, elapsed, effects>>

\* runSolver after `seed = await fetchMaze(desiredSize)`
ContResumeRunSolver ==
    /\ cont # <<>> /\ Head(cont).op = "resume"
    /\ cont' = Tail(cont)
    /\ IF Falsy(Head(cont).seed)
       THEN /\ last' = "runSolverReturn"
            /\ UNCHANGED <<state, inflight, nextId>>
       ELSE /\ state' = update(state, [loading |-> TRUE, error |-> "",
                                       runFailed |-> FALSE])
            /\ nextId' = nextId + 1
            /\ inflight' = inflight \cup
                   {SolveRequest(nextId + 1, Head(cont).alg, Head(cont).seed,
                                 Head(cont).params)}
            /\ last' = "runSolverResume"
    /\ UNCHANGED <<quota, elapsed, effects>>

\* ------------------------------------------------------------------ clock
\* a scheduled animation-frame callback fires, delta ms after the previous one
TickStep(delta) ==
    /\ cont = <<>>
    /\ rafOn
    /\ state.frameProgress + (delta * ProgressOne) \div stepDur
           <= MaxProgress * ProgressOne
    /\ state' = tick(state, delta, stepDur)
    /\ last' = "tick"
    /\ UNCHANGED <<inflight, nextId, cont, quota, effects>>

Tick(delta) == TickStep(delta) /\ UNCHANGED elapsed

\* ---------------------------------------------------------------- effects
\* the effects of the last render run, in declaration order: playback loop,
\* size change, algorithm change; each only if one of its dependencies changed
FlushEffects ==
    /\ cont = <<>>
    /\ EffectsPending
    /\ LET playChanged == PlayDepsOf(state) # playDeps
           sizeChanged == state.desiredSize # sizeDep
           algChanged == state.algorithm # algDep
           fetches == sizeChanged /\ ValidSize(state.desiredSize)
           s1 == IF sizeChanged
                 THEN IF fetches THEN fetchMazeStart(resetPlayback(state))
                      ELSE resetPlayback(state)
                 ELSE state
           s2 == IF algChanged
                 THEN update(resetPlayback(s1),
                             [solution |-> NoSolution, error |-> "",
                              runFailed |-> FALSE])
                 ELSE s1
       IN  /\ state' = s2
           /\ IF playChanged
              THEN /\ playDeps' = PlayDepsOf(state)
                   /\ rafOn' = (state.isRunning /\ Len(state.history) # 0)
                   /\ stepDur' = IF state.isRunning /\ Len(state.history) # 0
                                 THEN StepDurOf(state.speedMs) ELSE 0
              ELSE UNCHANGED <<playDeps, rafOn, stepDur>>
           /\ sizeDep' = state.desiredSize
           /\ algDep' = state.algorithm
           /\ IF fetches
              THEN /\ nextId' = nextId + 1
                   /\ inflight' = inflight \cup {MazeRequest(nextId + 1, "fetchMaze", "", <<>>)}
              ELSE UNCHANGED <<nextId, inflight>>
    /\ last' = "effects"
    /\ UNCHANGED <<cont, quota, elapsed, canvas, sidebar>>

Next ==
    \/ \E a \in AlgorithmChoices : SelectAlgorithm(a)
    \/ \E val \in SizeInputs : SetDesiredSize(val)
    \/ \E v \in Speeds : SetSpeed(v)
    \/ Stop
    \/ Reset
    \/ NewMaze
    \/ StartSolver
    \/ \E req \in inflight, ok \in BOOLEAN, seed \in Seeds : MazeResponse(req, ok, seed)
    \/ \E req \in inflight, ok \in BOOLEAN, solved \in BOOLEAN, n \in 0..MaxHist :
           SolveResponse(req, ok, solved, n)
    \/ ContResetPlayback
    \/ ContLoadingOff
    \/ ContResumeRunSolver
    \/ \E delta \in Deltas : Tick(delta)
    \/ FlushEffects

Spec == Init /\ [][Next]_vars

\* ------------------------------------------------------------------ tuning
\* a control of the tuning panel of the selected algorithm: update({ field: v })
SetTuning(c, v) ==
    /\ Idle
    /\ state.algorithm = c.alg
    /\ v # state[c.field]
    /\ state' = update(state, [g \in {c.field} |-> v])
    /\ last' = "SetTuning"
    /\ UNCHANGED <<async, effects>>

\* the machine with all four algorithms and their tuning panels, the
\* animation clock left out
NextTuning ==
    \/ \E a \in ALGORITHMS : SelectAlgorithm(a)
    \/ \E c \in TuningChoices : \E v \in c.values : SetTuning(c, v)
    \/ Stop
    \/ Reset
    \/ StartSolver
    \/ \E req \in inflight, ok \in BOOLEAN, seed \in Seeds : MazeResponse(req, ok, seed)
    \/ \E req \in inflight, ok \in BOOLEAN, solved \in BOOLEAN, n \in 0..MaxHist :
           SolveResponse(req, ok, solved, n)
    \/ ContResetPlayback
    \/ ContLoadingOff
    \/ ContResumeRunSolver
    \/ FlushEffects

SpecTuning == Init /\ [][NextTuning]_vars

\* ---------------------------------------------------------------- overlaps
\* the machine over longer runs, so that two solve requests can be in flight
\* together, with the algorithm, speed, New Maze and Reset controls left alone
InitRace ==
    /\ state = InitialState
    /\ inflight = {}
    /\ nextId = 0
    /\ cont = <<>>
    /\ rafOn = FALSE
    /\ stepDur = 0
    /\ playDeps = <<FALSE, 0, 0>>
    /\ sizeDep = 0
    /\ algDep = ""
    /\ quota = MaxRequestsRace
    /\ elapsed = 0
    /\ last = "init"
    /\ canvas = None
    /\ sidebar = None

NextRace ==
    \/ \E val \in SizeInputs : SetDesiredSize(val)
    \/ Stop
    \/ StartSolver
    \/ \E req \in inflight, ok \in BOOLEAN, seed \in Seeds : MazeResponse(req, ok, seed)
    \/ \E req \in inflight, ok \in BOOLEAN, solved \in BOOLEAN, n \in 0..MaxHist :
           SolveResponse(req, ok, solved, n)
    \/ ContResetPlayback
    \/ ContLoadingOff
    \/ ContResumeRunSolver
    \/ \E delta \in Deltas : Tick(delta)
    \/ FlushEffects

SpecRace == InitRace /\ [][NextRace]_vars

\* the same machine with the layer toggles operated, over shorter runs
InitUI ==
    /\ state = InitialState
    /\ inflight = {}
    /\ nextId = 0
    /\ cont = <<>>
    /\ rafOn = FALSE
    /\ stepDur = 0
    /\ playDeps = <<FALSE, 0, 0>>
    /\ sizeDep = 0
    /\ algDep = ""
    /\ quota = MaxRequestsUI
    /\ elapsed = 0
    /\ last = "init"
    /\ canvas = None
    /\ sidebar = None

NextUI ==
    \/ Next
    \/ \E f \in ToggleChoices : ToggleLayer(f)

SpecUI == InitUI /\ [][NextUI]_vars

\* --------------------------------------------------------------- the clock
\* A solved run of n frames has just been received and its playback effect
\* has started the animation loop at speed `speed`; from there only the clock
\* runs, and `elapsed` adds up the time the ticks report.
ClockStart(n, speed) ==
    update(applySolve(update(InitialState, [speedMs |-> speed]),
                      SolveRequest(2, "pso", 7, <<>>), TRUE, n),
           [loading |-> FALSE])

InitClock ==
    /\ \E n \in 1..MaxHist, speed \in Speeds :
           /\ state = ClockStart(n, speed)
           /\ stepDur = StepDurOf(speed)
    /\ playDeps = PlayDepsOf(state)
    /\ sizeDep = state.desiredSize
    /\ algDep = state.algorithm
    /\ rafOn = TRUE
    /\ inflight = {}
    /\ nextId = 2
    /\ cont = <<>>
    /\ quota = 2
    /\ elapsed = 0
    /\ last = "effects"
    /\ canvas = None
    /\ sidebar = None

\* a tick of the running loop
ClockTick(delta) ==
    /\ state.isRunning
    /\ TickStep(delta)
    /\ elapsed' = elapsed + delta

NextClock ==
    \/ \E delta \in ClockDeltas : ClockTick(delta)
    \/ FlushEffects

SpecClock == InitClock /\ [][NextClock]_vars

\* ----------------------------------------------------- playback to the end
\* From the same start only the animation loop and the effects run, every
\* tick reporting a positive elapsed time.  requestAnimationFrame(tick) at
\* the end of every tick keeps the loop scheduled until the cleanup of the
\* effect cancels it, and React runs the effects of every render: both are
\* weakly fair.
PlaybackDeltas == {10, 30, 50, 100, 250}

NextPlayback ==
    \/ \E delta \in PlaybackDeltas : Tick(delta)
    \/ FlushEffects

SpecPlayback ==
    /\ InitClock
    /\ [][NextPlayback]_vars
    /\ WF_vars(\E delta \in PlaybackDeltas : Tick(delta))
    /\ WF_vars(FlushEffects)

\* ---------------------------------------------------------------- renderer
\* In this part a frame is [candidates, best] and a solution is
\* [final_candidates, best_candidate, path], every field optional; a candidate
\* is [path], optional too; a path is a sequence of <<row, col>> cells.

\* arr[i] of JavaScript: undefined outside 0 .. arr.length - 1
ArrayAt(arr, i) == IF i >= 0 /\ i < Len(arr) THEN Some(arr[i + 1]) ELSE None

\* o?.f
Get(o, f) == IF o.some THEN o.val[f] ELSE None

\* a ?? b
Coalesce(a, b) == IF a.some THEN a ELSE b

\* the frame taken without the clamp to the last index
frame_Unclamped(s) == ArrayAt(s.history, s.currentStep)

frame(s) == ArrayAt(s.history, Min(s.currentStep, Len(s.history) - 1))

fallbackCandidates(s) == Coalesce(Get(s.solution, "final_candidates"), Some(<<>>))

\* the explorer list with the two sources in the other order
explorers_SolutionFirst(s) ==
    Coalesce(Get(s.solution, "final_candidates"),
             Coalesce(Get(frame(s), "candidates"), Some(<<>>)))

explorers(s) == Coalesce(Get(frame(s), "candidates"), fallbackCandidates(s))

frameBest(s) ==
    Coalesce(Coalesce(Get(frame(s), "best"), Get(s.solution, "best_candidate")), None)

bestPath(s) ==
    Coalesce(Coalesce(Get(frameBest(s), "path"), Get(s.solution, "path")), Some(<<>>))

\* pathPoints.slice(0, n)
slice(pathPoints, n) == SubSeq(pathPoints, 1, Min(n, Len(pathPoints)))

\* the number of points without the lower limit of one point
visibleCount_NoFloor(len, progress) == (len * progress) \div ProgressOne

\* Math.max(1, Math.floor(length * progress))
visibleCount(len, progress) == Max(1, (len * progress) \div ProgressOne)

\* the segment drawPath strokes; nothing for a missing or empty path
drawPath(pathPoints, progress) ==
    IF ~pathPoints.some \/ Len(pathPoints.val) = 0
    THEN None
    ELSE Some(slice(pathPoints.val, visibleCount(Len(pathPoints.val), progress)))

\* what drawMaze draws for one explorer: its segment and its head marker;
\* reading explorer.path.length throws when the explorer has no path
drawExplorer(explorer, progress) ==
    IF ~explorer.path.some
    THEN [segment |-> None, marker |-> None, threw |-> TRUE]
    ELSE [segment |-> drawPath(explorer.path, progress),
          marker |-> ArrayAt(explorer.path.val,
                             Min(visibleCount(Len(explorer.path.val), progress) - 1,
                                 Len(explorer.path.val) - 1)),
          threw |-> FALSE]

\* drawMaze that reveals by the stored frameProgress also when stopped
drawMaze_StoredProgress(maze, explorerList, best, frameProgress, isRunning) ==
    IF maze = 0
    THEN None
    ELSE LET progress == frameProgress
             drawn == [i \in DOMAIN explorerList |->
                          drawExplorer(explorerList[i], progress)]
             threw == \E i \in DOMAIN drawn : drawn[i].threw
         IN  Some([progress |-> progress,
                   explorers |-> drawn,
                   bestPath |-> IF threw THEN None ELSE drawPath(best, progress),
                   threw |-> threw])

\* the paths and markers of one drawMaze pass; nothing without a maze
drawMaze(maze, explorerList, best, frameProgress, isRunning) ==
    IF maze = 0
    THEN None
    ELSE LET progress == IF isRunning THEN frameProgress ELSE ProgressOne
             drawn == [i \in DOMAIN explorerList |->
                          drawExplorer(explorerList[i], progress)]
             threw == \E i \in DOMAIN drawn : drawn[i].threw
         IN  Some([progress |-> progress,
                   explorers |-> drawn,
                   bestPath |-> IF threw THEN None ELSE drawPath(best, progress),
                   threw |-> threw])

\* the Canvas effect: the renderer inputs and the pass drawn from them
CanvasOf(s) ==
    Some([frame |-> frame(s),
          explorers |-> explorers(s),
          frameBest |-> frameBest(s),
          bestPath |-> bestPath(s),
          image |-> drawMaze(s.maze, explorers(s).val, bestPath(s),
                             s.frameProgress, s.isRunning)])

DrawCanvas ==
    /\ canvas # CanvasOf(state)
    /\ canvas' = CanvasOf(state)
    /\ last' = "draw"
    /\ UNCHANGED <<state, inflight, nextId, cont, rafOn, stepDur, playDeps,
                   sizeDep, algDep, quota, elapsed, sidebar>>

RenderFrames ==
    {[candidates |-> None, best |-> None],
     [candidates |-> Some(<<>>), best |-> Some([path |-> None])],
     [candidates |-> Some(<<[path |-> Some(<<<<0, 0>>, <<0, 1>>>>)],
                            [path |-> Some(<<<<0, 0>>, <<0, 1>>, <<1, 1>>>>)]>>),
      best |-> Some([path |-> Some(<<<<0, 0>>, <<0, 1>>, <<1, 1>>>>)])],
     [candidates |-> Some(<<[path |-> Some(<<<<0, 0>>>>)]>>), best |-> None]}

RenderSolutions ==
    {None,
     Some([final_candidates |-> None, best_candidate |-> None, path |-> None]),
     Some([final_candidates |-> Some(<<[path |-> Some(<<<<1, 1>>>>)]>>),
           best_candidate |-> None, path |-> Some(<<<<1, 1>>, <<1, 0>>>>)]),
     Some([final_candidates |-> Some(<<>>),
           best_candidate |-> Some([path |-> None]),
           path |-> Some(<<<<1, 1>>, <<1, 0>>>>)]),
     Some([final_candidates |-> Some(<<[path |-> Some(<<<<1, 1>>>>)]>>),
           best_candidate |-> Some([path |-> Some(<<<<1, 0>>>>)]),
           path |-> None])}

RenderProgress == {0, 50, 75, 100}

RenderHistories ==
    UNION {[1..n -> RenderFrames] : n \in 0..MaxFrames}

\* a state about to be drawn: any history, cursor, solution and progress
InitRender ==
    /\ \E h \in RenderHistories, step \in 0..(MaxFrames + 1),
          sol \in RenderSolutions, g \in RenderProgress,
          run \in BOOLEAN, mz \in {0, 1} :
           state = update(InitialState,
                          [history |-> h, currentStep |-> step, solution |-> sol,
                           frameProgress |-> g, isRunning |-> run, maze |-> mz])
    /\ inflight = {}
    /\ nextId = 0
    /\ cont = <<>>
    /\ rafOn = FALSE
    /\ stepDur = 0
    /\ playDeps = PlayDepsOf(state)
    /\ sizeDep = state.desiredSize
    /\ algDep = state.algorithm
    /\ quota = 0
    /\ elapsed = 0
    /\ last = "render"
    /\ canvas = None
    /\ sidebar = None

NextRender == DrawCanvas

SpecRender == InitRender /\ [][NextRender]_vars

\* --------------------------------------------------------- renderer layers
\* In this part a candidate is [path, velocity, fitness], a frame is
\* [candidates, best, pheromone_map] and a solution is [final_candidates,
\* best_candidate, path, start, goal], every field optional. A velocity is
\* <<vx, vy>> in hundredths of a cell; a pheromone map is the sequence of its
\* entries [cell, strength], the strength in hundredths. A colour is
\* [name, arg]; line widths are in tenths of a pixel, alphas in hundredths.
\* A pass is [ops, ctx, threw, explorers]: the drawing calls issued so far,
\* the attributes of the 2d context, whether a TypeError ended the pass, and
\* the explorer array as the pass leaves it. A drawing call is
\* [layer, op, at, text, uses], uses holding the context attributes it reads.

CELL_SIZE == 24
TopN == 5
Tolerance == 3

Color(name, arg) == [name |-> name, arg |-> arg]

\* the attributes of a 2d context whose canvas was just given its size
DefaultContext ==
    [fillStyle |-> Color("#000000", 0), strokeStyle |-> Color("#000000", 0),
     lineWidth |-> 10, lineCap |-> "butt", globalAlpha |-> 100,
     font |-> "10px sans-serif", textAlign |-> "start",
     textBaseline |-> "alphabetic"]

\* a context that keeps its attributes from one pass to the next
ContextAfterResize_Kept(before) == before

\* canvas.width = ...; canvas.height = ...: assigning the size resets the
\* context, whatever the attributes were before
ContextAfterResize(before) == DefaultContext

\* the context attributes a drawing call reads
UsesOf(op) ==
    CASE op \in {"fill", "fillRect"} -> {"fillStyle", "globalAlpha"}
      [] op = "stroke" -> {"strokeStyle", "lineWidth", "lineCap", "globalAlpha"}
      [] op = "strokeRect" -> {"strokeStyle", "lineWidth", "globalAlpha"}
      [] op = "fillText" -> {"fillStyle", "font", "textAlign", "textBaseline",
                             "globalAlpha"}
      [] OTHER -> {}

\* ctx.<op>(...) in a layer, at the given cells
Emit(p, layer, op, at, text) ==
    [p EXCEPT !.ops = Append(@, [layer |-> layer, op |-> op, at |-> at,
                                 text |-> text,
                                 uses |-> [a \in UsesOf(op) |-> p.ctx[a]]])]

\* ctx.<attribute> = value
SetContext(p, changes) == [p EXCEPT !.ctx = update(@, changes)]

\* an uncaught TypeError: the rest of the pass does not run
Throw(p) == [p EXCEPT !.threw = TRUE]

Truthy(o) == o.some /\ o.val

\* explorer.fitness || 0
fitnessOf(explorer) == IF explorer.fitness.some THEN explorer.fitness.val ELSE 0

RECURSIVE SumSeq(_)
SumSeq(q) == IF q = <<>> THEN 0 ELSE q[1] + SumSeq(Tail(q))

RECURSIVE MaxSeq(_)
MaxSeq(q) == IF Len(q) = 1 THEN q[1] ELSE Max(q[1], MaxSeq(Tail(q)))

\* the keys of an object in insertion order
RECURSIVE distinct(_)
distinct(q) ==
    IF q = <<>>
    THEN <<>>
    ELSE LET front == distinct(SubSeq(q, 1, Len(q) - 1))
         IN  IF \E i \in DOMAIN front : front[i] = q[Len(q)]
             THEN front
             ELSE Append(front, q[Len(q)])

\* drawPath on the context: the segment is stroked with the given colour,
\* width and alpha, and the alpha is put back to 1
drawPathOn(p, layer, pathPoints, color, width, progress, alpha) ==
    LET segment == drawPath(pathPoints, progress)
    IN  IF ~segment.some
        THEN p
        ELSE SetContext(
                 Emit(SetContext(p, [strokeStyle |-> color, globalAlpha |-> alpha,
                                     lineWidth |-> width, lineCap |-> "round"]),
                      layer, "stroke", segment.val, 0),
                 [globalAlpha |-> 100])

\* one arrow of drawVelocityVectors that leaves its alpha on the context
drawVelocityVector_KeepAlpha(p, explorer, progress) ==
    IF ~explorer.velocity.some
    THEN p
    ELSE IF ~explorer.path.some
    THEN Throw(p)
    ELSE IF Len(explorer.path.val) = 0
    THEN p
    ELSE LET q == explorer.path.val
             currentPos == q[Min(visibleCount(Len(q), progress) - 1, Len(q) - 1) + 1]
             v == explorer.velocity.val
         IN  IF v[1] * v[1] + v[2] * v[2] > 1
             THEN Emit(Emit(SetContext(p, [strokeStyle |-> Color("#fbbf24", 0),
                                           fillStyle |-> Color("#fbbf24", 0),
                                           lineWidth |-> 20, globalAlpha |-> 70]),
                            "velocity", "stroke", <<currentPos>>, 0),
                       "velocity", "fill", <<currentPos>>, 0)
             ELSE p

\* the body of drawVelocityVectors for one explorer: nothing without a
\* velocity or with an empty path, nothing for a magnitude up to 0.01, else
\* the arrow line and the arrowhead at the visible head of the path
drawVelocityVector(p, explorer, progress) ==
    IF ~explorer.velocity.some
    THEN p
    ELSE IF ~explorer.path.some
    THEN Throw(p)
    ELSE IF Len(explorer.path.val) = 0
    THEN p
    ELSE LET q == explorer.path.val
             currentPos == q[Min(visibleCount(Len(q), progress) - 1, Len(q) - 1) + 1]
             v == explorer.velocity.val
         IN  IF v[1] * v[1] + v[2] * v[2] > 1
             THEN SetContext(
                      Emit(Emit(SetContext(p, [strokeStyle |-> Color("#fbbf24", 0),
                                               fillStyle |-> Color("#fbbf24", 0),
                                               lineWidth |-> 20, globalAlpha |-> 70]),
                                "velocity", "stroke", <<currentPos>>, 0),
                           "velocity", "fill", <<currentPos>>, 0),
                      [globalAlpha |-> 100])
             ELSE p

RECURSIVE drawVelocityVectors(_, _, _, _)
drawVelocityVectors(p, list, i, progress) ==
    IF i > Len(list) \/ p.threw
    THEN p
    ELSE drawVelocityVectors(drawVelocityVector(p, list[i], progress), list,
                             i + 1, progress)

\* one entry of the pheromone map: its cell, and a glow above strength 0.5
drawPheromoneTrail(p, entry) ==
    LET hue == 180 + (entry.strength * 60) \div Hundredths
        cell == Emit(SetContext(p, [fillStyle |-> Color("hsl", hue)]),
                     "pheromone", "fillRect", <<entry.cell>>, 0)
    IN  IF entry.strength > 50
        THEN Emit(SetContext(cell, [fillStyle |-> Color("gradient", hue)]),
                  "pheromone", "fillRect", <<entry.cell>>, 0)
        ELSE cell

RECURSIVE drawPheromoneEntries(_, _, _)
drawPheromoneEntries(p, entries, i) ==
    IF i > Len(entries)
    THEN p
    ELSE drawPheromoneEntries(drawPheromoneTrail(p, entries[i]), entries, i + 1)

drawPheromoneTrails(p, pheromoneMap) ==
    IF ~pheromoneMap.some
    THEN p
    ELSE SetContext(
             drawPheromoneEntries(SetContext(p, [globalAlpha |-> 40]),
                                  pheromoneMap.val, 1),
             [globalAlpha |-> 100])

\* every cell visit of every explorer, with the fitness of the visitor
RECURSIVE cellVisitList(_)
cellVisitList(list) ==
    IF list = <<>>
    THEN <<>>
    ELSE LET explorer == list[Len(list)]
         IN  cellVisitList(SubSeq(list, 1, Len(list) - 1))
             \o [k \in DOMAIN explorer.path.val |->
                    [cell |-> explorer.path.val[k], fitness |-> fitnessOf(explorer)]]

RECURSIVE drawHeatCells(_, _, _, _, _)
drawHeatCells(p, cells, visited, maxFitness, i) ==
    IF i > Len(cells)
    THEN p
    ELSE LET hits == SelectSeq(visited, LAMBDA v : v.cell = cells[i])
             value == SumSeq([k \in DOMAIN hits |-> hits[k].fitness])
             hue == 120 - (Min(value, maxFitness) * 60) \div maxFitness
         IN  drawHeatCells(Emit(SetContext(p, [fillStyle |-> Color("hsl", hue)]),
                                "heat", "fillRect", <<cells[i]>>, 0),
                           cells, visited, maxFitness, i + 1)

\* the fitness sums are gathered over explorer.path of every explorer, which
\* throws for an explorer without path, and then one cell is filled per
\* visited cell
drawFitnessHeatmap(p, list) ==
    IF \E i \in DOMAIN list : ~list[i].path.some
    THEN Throw(p)
    ELSE LET visited == cellVisitList(list)
             cells == distinct([k \in DOMAIN visited |-> visited[k].cell])
             maxFitness == MaxSeq([k \in DOMAIN visited |-> visited[k].fitness]
                                  \o <<1>>)
         IN  SetContext(
                 drawHeatCells(SetContext(p, [globalAlpha |-> 30]), cells,
                               visited, maxFitness, 1),
                 [globalAlpha |-> 100])

\* [...explorers].sort((a, b) => (b.fitness || 0) - (a.fitness || 0)): a
\* stable sort of a copy, by descending fitness
RECURSIVE sorted(_)
sorted(list) ==
    IF list = <<>>
    THEN <<>>
    ELSE LET front == sorted(SubSeq(list, 1, Len(list) - 1))
             e == list[Len(list)]
             k == Cardinality({i \in DOMAIN front :
                                  fitnessOf(front[i]) >= fitnessOf(e)})
         IN  SubSeq(front, 1, k) \o <<e>> \o SubSeq(front, k + 1, Len(front))

\* the performers taken after the ones without a drawable path are dropped
bestPerformers_SkipEmpty(list, topN) ==
    slice(SelectSeq(sorted(list),
                    LAMBDA e : e.path.some /\ Len(e.path.val) > 0), topN)

\* sorted.slice(0, topN)
bestPerformers(list, topN) == slice(sorted(list), topN)

\* the glow, the badge and the rank number of one performer, at the last
\* point of its path; nothing for a performer without path points
drawPerformer(p, explorer, rank) ==
    IF ~explorer.path.some \/ Len(explorer.path.val) = 0
    THEN p
    ELSE LET lastPos == explorer.path.val[Len(explorer.path.val)]
             glow == Emit(SetContext(p, [fillStyle |->
                                            Color("rgba(255, 215, 0)", 60 - rank * 10)]),
                          "top", "fill", <<lastPos>>, 0)
             badge == Emit(Emit(SetContext(glow, [fillStyle |-> Color("#fbbf24", 0),
                                                  strokeStyle |-> Color("#78350f", 0),
                                                  lineWidth |-> 20]),
                                "top", "fill", <<lastPos>>, 0),
                           "top", "stroke", <<lastPos>>, 0)
         IN  Emit(SetContext(badge, [fillStyle |-> Color("#78350f", 0),
                                     font |-> "bold 10px sans-serif",
                                     textAlign |-> "center",
                                     textBaseline |-> "middle"]),
                  "top", "fillText", <<lastPos>>, rank + 1)

RECURSIVE drawPerformers(_, _, _)
drawPerformers(p, performers, rank) ==
    IF rank >= Len(performers)
    THEN p
    ELSE drawPerformers(drawPerformer(p, performers[rank + 1], rank),
                        performers, rank + 1)

\* a version that sorts the caller's array itself
drawBestPerformers_InPlace(p, list, topN) ==
    [drawPerformers(p, bestPerformers(list, topN), 0) EXCEPT !.explorers = sorted(list)]

drawBestPerformers(p, list, topN) == drawPerformers(p, bestPerformers(list, topN), 0)

\* one entry per explorer with path points, equal cells counted apart
endCells_PerExplorer(list) ==
    {<<i, list[i].path.val[Len(list[i].path.val)]>> :
        i \in {j \in DOMAIN list : list[j].path.some /\ Len(list[j].path.val) > 0}}

\* the last cells of the explorers that have path points
endCells(list) ==
    {list[i].path.val[Len(list[i].path.val)] :
        i \in {j \in DOMAIN list : list[j].path.some /\ Len(list[j].path.val) > 0}}

\* Math.round(num / den * 100)
Percent(num, den) == (200 * num + den) \div (2 * den)

drawDiversityIndicator(p, list) ==
    IF Len(list) = 0
    THEN p
    ELSE LET unique == Cardinality(endCells(list))
             back == Emit(SetContext(p, [fillStyle |-> Color("rgba(15, 23, 42, 0.8)", 0)]),
                          "diversity", "fillRect", <<>>, 0)
             bar == Emit(SetContext(back, [fillStyle |->
                                              Color("hsl", (unique * 120) \div Len(list))]),
                         "diversity", "fillRect", <<>>, 0)
             frameRect == Emit(SetContext(bar, [strokeStyle |-> Color("#334155", 0),
                                                lineWidth |-> 10]),
                               "diversity", "strokeRect", <<>>, 0)
         IN  Emit(SetContext(frameRect, [fillStyle |-> Color("#f8fafc", 0),
                                         font |-> "bold 10px sans-serif",
                                         textAlign |-> "left"]),
                  "diversity", "fillText", <<>>, Percent(unique, Len(list)))

\* an explorer whose last cell is within the tolerance of a best-path cell
isNear(explorer, best) ==
    /\ explorer.path.some /\ Len(explorer.path.val) > 0
    /\ LET lastPos == explorer.path.val[Len(explorer.path.val)]
           Abs(x) == IF x < 0 THEN -x ELSE x
       IN  \E k \in DOMAIN best :
               /\ Abs(best[k][1] - lastPos[1]) <= Tolerance
               /\ Abs(best[k][2] - lastPos[2]) <= Tolerance

drawConvergenceIndicator(p, list, best) ==
    IF Len(list) = 0 \/ Len(best) = 0
    THEN p
    ELSE LET nearBest == Cardinality({i \in DOMAIN list : isNear(list[i], best)})
             back == Emit(SetContext(p, [fillStyle |-> Color("rgba(15, 23, 42, 0.8)", 0)]),
                          "convergence", "fillRect", <<>>, 0)
             bar == Emit(SetContext(back, [fillStyle |->
                                              Color("hsla(200)",
                                                    50 + (nearBest * 50) \div Len(list))]),
                         "convergence", "fillRect", <<>>, 0)
             frameRect == Emit(SetContext(bar, [strokeStyle |-> Color("#334155", 0),
                                                lineWidth |-> 10]),
                               "convergence", "strokeRect", <<>>, 0)
         IN  Emit(SetContext(frameRect, [fillStyle |-> Color("#f8fafc", 0),
                                         font |-> "bold 10px sans-serif",
                                         textAlign |-> "right"]),
                  "convergence", "fillText", <<>>, Percent(nearBest, Len(list)))

\* hsla(hue, 70%, 65%, 0.65) with hue = Math.round(index / length * 360)
explorerColor(index, n) == Color("hsla", (2 * 360 * index + n) \div (2 * n))

\* the trajectory and the head marker of every explorer, in list order
RECURSIVE drawExplorerPaths(_, _, _, _)
drawExplorerPaths(p, list, i, progress) ==
    IF i > Len(list) \/ p.threw
    THEN p
    ELSE LET color == explorerColor(i - 1, Len(list))
             d == drawExplorer(list[i], progress)
             stroked == drawPathOn(p, "explorers", list[i].path, color,
                                   (CELL_SIZE * 10) \div 3, progress, 80)
             marked == IF d.threw
                       THEN Throw(stroked)
                       ELSE IF d.marker.some
                       THEN Emit(SetContext(stroked, [fillStyle |-> color]),
                                 "explorers", "fill", <<d.marker.val>>, 0)
                       ELSE stroked
         IN  drawExplorerPaths(marked, list, i + 1, progress)

\* the heat field drawn for every algorithm
showsHeatmap_AnyAlgorithm(args) == args.showHeatmap /\ Len(args.explorers) > 0

showsPheromones(args) ==
    args.showPheromones /\ args.algorithmType = "ant" /\ args.pheromoneMap.some

showsHeatmap(args) ==
    args.showHeatmap /\ args.algorithmType = "genetic" /\ Len(args.explorers) > 0

showsVelocities(args) ==
    Len(args.explorers) > 0 /\ args.showVelocities /\ args.algorithmType = "pso"

showsTopPerformers(args) == Len(args.explorers) > 0 /\ args.showTopPerformers

showsMetrics(args) == Truthy(args.showMetrics) /\ Len(args.explorers) > 0

\* the layers with the best path drawn before the explorers
LayerOrder_BestPathFirst ==
    <<"grid", "pheromone", "heat", "border", "bestPath", "explorers",
      "velocity", "top", "markers", "hud">>

\* the statements of drawMaze, top to bottom
LayerOrder ==
    <<"grid", "pheromone", "heat", "border", "explorers", "velocity", "top",
      "bestPath", "markers", "hud">>

\* the start or goal cell of the solution; a maze holder without solution
\* has none
Marker(solution, f) == IF solution.some THEN solution.val[f] ELSE None

drawLayer(name, p, args, progress) ==
    CASE name = "grid" ->
            Emit(SetContext(p, [fillStyle |-> Color("cell", args.maze)]),
                 "grid", "fillRect", <<>>, 0)
      [] name = "pheromone" ->
            IF showsPheromones(args)
            THEN drawPheromoneTrails(p, args.pheromoneMap)
            ELSE p
      [] name = "heat" ->
            IF showsHeatmap(args) THEN drawFitnessHeatmap(p, args.explorers) ELSE p
      [] name = "border" ->
            Emit(SetContext(p, [strokeStyle |-> Color("#334155", 0)]),
                 "border", "strokeRect", <<>>, 0)
      [] name = "explorers" ->
            drawExplorerPaths(p, args.explorers, 1, progress)
      [] name = "velocity" ->
            IF showsVelocities(args)
            THEN drawVelocityVectors(p, args.explorers, 1, progress)
            ELSE p
      [] name = "top" ->
            IF showsTopPerformers(args)
            THEN drawBestPerformers(p, args.explorers, TopN)
            ELSE p
      [] name = "bestPath" ->
            drawPathOn(p, "bestPath", Some(args.bestPath), Color("#ff0000ff", 0),
                       (CELL_SIZE * 100) \div 25, progress, 100)
      [] name = "markers" ->
            LET start == Marker(args.solution, "start")
                goal == Marker(args.solution, "goal")
                started == IF start.some
                           THEN Emit(SetContext(p, [fillStyle |-> Color("#10b981", 0)]),
                                     "markers", "fillRect", <<start.val>>, 0)
                           ELSE p
            IN  IF goal.some
                THEN Emit(SetContext(started, [fillStyle |-> Color("#ef4444", 0)]),
                          "markers", "fillRect", <<goal.val>>, 0)
                ELSE started
      [] name = "hud" ->
            IF showsMetrics(args)
            THEN drawConvergenceIndicator(
                     drawDiversityIndicator(p, args.explorers),
                     args.explorers, args.bestPath)
            ELSE p

RECURSIVE drawLayers(_, _, _, _)
drawLayers(p, order, args, progress) ==
    IF order = <<>> \/ p.threw
    THEN p
    ELSE drawLayers(drawLayer(Head(order), p, args, progress), Tail(order),
                    args, progress)

\* one call of drawMaze on a canvas whose context holds the attributes
\* `before`: nothing without a maze; else the canvas is resized and the
\* layers are drawn in order
drawMazeOnCanvas(before, args) ==
    IF args.maze = 0
    THEN [ops |-> <<>>, ctx |-> before, threw |-> FALSE,
          explorers |-> args.explorers]
    ELSE drawLayers([ops |-> <<>>, ctx |-> ContextAfterResize(before),
                     threw |-> FALSE, explorers |-> args.explorers],
                    LayerOrder, args,
                    IF args.isRunning THEN args.frameProgress ELSE ProgressOne)

pheromoneMap(s) == Coalesce(Get(frame(s), "pheromone_map"), None)

\* the arguments Canvas hands to drawMaze: showMetrics is not among them
CanvasArgs(s) ==
    [maze |-> s.maze, explorers |-> explorers(s).val, bestPath |-> bestPath(s).val,
     solution |-> s.solution, frameProgress |-> s.frameProgress,
     isRunning |-> s.isRunning, algorithmType |-> s.algorithm,
     showVelocities |-> s.showVelocities, showHeatmap |-> s.showHeatmap,
     showTopPerformers |-> s.showTopPerformers, showMetrics |-> None,
     showPheromones |-> s.showPheromones, pheromoneMap |-> pheromoneMap(s)]

\* the dependency list of the Canvas effect
CanvasDeps(s) ==
    [f \in {"maze", "history", "currentStep", "solution", "frameProgress",
            "isRunning", "algorithm", "showVelocities", "showHeatmap",
            "showTopPerformers", "showMetrics", "showPheromones"} |-> s[f]]

\* the Canvas effect has run for the current state
Painted == canvas.some /\ canvas.val.deps = CanvasDeps(state)

\* a call of drawMaze with the given arguments on the one canvas; `again`
\* tells that the pass before had the same arguments
Paint(args) ==
    Some([deps |-> CanvasDeps(state),
          args |-> args,
          pass |-> drawMazeOnCanvas(IF canvas.some THEN canvas.val.pass.ctx
                                    ELSE DefaultContext, args),
          again |-> canvas.some /\ canvas.val.args = args])

\* the Canvas effect runs after a render that changed one of its dependencies
PaintCanvas ==
    /\ ~Painted
    /\ canvas' = Paint(CanvasArgs(state))
    /\ last' = "PaintCanvas"
    /\ UNCHANGED <<state, inflight, nextId, cont, rafOn, stepDur, playDeps,
                   sizeDep, algDep, quota, elapsed, sidebar>>

\* drawMaze called with its showMetrics parameter given
CallDrawMaze(showMetrics) ==
    /\ Painted
    /\ canvas' = Paint([CanvasArgs(state) EXCEPT !.showMetrics = Some(showMetrics)])
    /\ canvas' # canvas
    /\ last' = "CallDrawMaze"
    /\ UNCHANGED <<state, inflight, nextId, cont, rafOn, stepDur, playDeps,
                   sizeDep, algDep, quota, elapsed, sidebar>>

\* a checkbox of the XAI panel, operated once the canvas is up to date
ToggleOverlay(f) == Painted /\ ToggleLayer(f)

Candidate(path, velocity, fitness) ==
    [path |-> path, velocity |-> velocity, fitness |-> fitness]

LayerCandidates ==
    {<<Candidate(Some(<<<<0, 0>>, <<0, 1>>>>), Some(<<100, 0>>), Some(3)),
       Candidate(Some(<<<<0, 0>>, <<0, 1>>, <<1, 1>>>>), Some(<<0, 0>>), Some(7))>>,
     <<Candidate(Some(<<<<0, 0>>, <<0, 1>>>>), None, None),
       Candidate(None, Some(<<50, 50>>), Some(2))>>,
     <<Candidate(Some(<<>>), None, Some(4)),
       Candidate(Some(<<<<0, 0>>, <<0, 1>>>>), None, None)>>,
     <<Candidate(Some(<<<<0, 0>>>>), None, Some(5)),
       Candidate(Some(<<<<0, 0>>, <<0, 1>>>>), Some(<<0, 100>>), Some(9)),
       Candidate(Some(<<>>), None, Some(9)),
       Candidate(Some(<<<<0, 0>>, <<1, 0>>>>), None, Some(5)),
       Candidate(Some(<<<<0, 0>>, <<0, 5>>>>), None, None),
       Candidate(Some(<<<<0, 0>>, <<0, 1>>>>), None, Some(2))>>}

LayerFrames ==
    {[candidates |-> Some(list), best |-> None, pheromone_map |-> None] :
        list \in LayerCandidates}
    \cup
    {[candidates |-> Some(list),
      best |-> Some(Candidate(Some(<<<<0, 0>>, <<0, 1>>, <<1, 1>>>>), None, Some(9))),
      pheromone_map |-> Some(<<[cell |-> <<0, 1>>, strength |-> 80],
                               [cell |-> <<1, 1>>, strength |-> 30]>>)] :
        list \in LayerCandidates}

LayerSolutions ==
    {None,
     Some([final_candidates |-> None, best_candidate |-> None,
           path |-> Some(<<<<0, 0>>, <<1, 0>>>>),
           start |-> Some(<<0, 0>>), goal |-> Some(<<1, 2>>)])}

\* a state with one frame on display and any algorithm; the three
\* algorithm-specific checkboxes are all on, as at start, or all off; a
\* state without maze has no solution either
InitLayers ==
    /\ \E f \in LayerFrames, sol \in LayerSolutions, a \in ALGORITHMS,
          run \in BOOLEAN, mz \in {0, 1}, on \in BOOLEAN :
           /\ mz = 0 => ~sol.some
           /\ state = update(InitialState,
                             [history |-> <<f>>, solution |-> sol, algorithm |-> a,
                              frameProgress |-> IF run THEN 50 ELSE 0,
                              isRunning |-> run, maze |-> mz,
                              showVelocities |-> on, showHeatmap |-> on,
                              showPheromones |-> on])
    /\ inflight = {}
    /\ nextId = 0
    /\ cont = <<>>
    /\ rafOn = state.isRunning
    /\ stepDur = IF state.isRunning THEN StepDurOf(state.speedMs) ELSE 0
    /\ playDeps = PlayDepsOf(state)
    /\ sizeDep = state.desiredSize
    /\ algDep = state.algorithm
    /\ quota = 0
    /\ elapsed = 0
    /\ last = "render"
    /\ canvas = None
    /\ sidebar = None

NextLayers ==
    \/ PaintCanvas
    \/ \E m \in BOOLEAN : CallDrawMaze(m)
    \/ \E f \in LayerToggles : ToggleOverlay(f)

SpecLayers == InitLayers /\ [][NextLayers]_vars

\* ----------------------------------------------------------------- sidebar
\* In this part a candidate is [position, path], a frame is [candidates,
\* best, diversity, convergence, metrics], a solution is [final_candidates,
\* best_candidate, diversity, convergence, metrics] and metrics is
\* [diversity, convergence], every field optional; the maze is [rows, cols].
\* A metric is the fraction [num, den]. The cells used are such that every
\* distance between two of them is a whole number.

Rat(n, d) == [num |-> n, den |-> d]

\* Math.sqrt of a perfect square
Sqrt(n) == CHOOSE r \in 0..n : r * r = n

\* e.position, else the last point of e.path, else null
positionOf(e) ==
    IF e.position.some
    THEN e.position
    ELSE IF e.path.some /\ Len(e.path.val) > 0
    THEN Some(e.path.val[Len(e.path.val)])
    ELSE None

distance(a, b) ==
    Sqrt((a[1] - b[1]) * (a[1] - b[1]) + (a[2] - b[2]) * (a[2] - b[2]))

\* the positions of the explorers that have one
positionsOf(list) ==
    LET found == SelectSeq([k \in DOMAIN list |-> positionOf(list[k])],
                           LAMBDA o : o.some)
    IN  [k \in DOMAIN found |-> found[k].val]

\* the sum of the pairwise distances, not divided by the number of pairs
calculateDiversity_Sum(list, maze) ==
    IF Len(list) < 2 \/ Len(positionsOf(list)) < 2
    THEN Rat(0, 1)
    ELSE LET positions == positionsOf(list)
             totalDistance ==
                 SumSeq([i \in DOMAIN positions |->
                            SumSeq([j \in DOMAIN positions |->
                                       IF j > i
                                       THEN distance(positions[i], positions[j])
                                       ELSE 0])])
         IN  Rat(totalDistance,
                 Sqrt(maze.rows * (IF maze.cols = 0 THEN 1 ELSE maze.cols)))

\* the mean distance over the pairs of positions, divided by
\* Math.sqrt(maze.length * (maze[0]?.length || 1)); 0 with fewer than two
\* explorers or fewer than two positions
calculateDiversity(list, maze) ==
    IF Len(list) < 2
    THEN Rat(0, 1)
    ELSE LET positions == positionsOf(list)
             n == Len(positions)
             totalDistance ==
                 SumSeq([i \in DOMAIN positions |->
                            SumSeq([j \in DOMAIN positions |->
                                       IF j > i
                                       THEN distance(positions[i], positions[j])
                                       ELSE 0])])
             comparisons == (n * (n - 1)) \div 2
             mazeSize == Sqrt(maze.rows * (IF maze.cols = 0 THEN 1 ELSE maze.cols))
         IN  IF n < 2
             THEN Rat(0, 1)
             ELSE Rat(totalDistance, comparisons * mazeSize)

\* the total distance in place of the mean distance
calculateConvergence_Total(list, bestCandidate) ==
    IF Len(list) < 2 \/ ~bestCandidate.some \/ ~positionOf(bestCandidate.val).some
    THEN Rat(0, 1)
    ELSE LET positions == positionsOf(list)
             totalDistance ==
                 SumSeq([k \in DOMAIN positions |->
                            distance(positions[k], positionOf(bestCandidate.val).val)])
         IN  Rat(1, 1 + totalDistance)

\* 1 / (1 + avgDistance), the average taken over the explorers that have a
\* position and counted as 0 when none has; 0 with fewer than two explorers,
\* without best candidate or when the best candidate has no position
calculateConvergence(list, bestCandidate) ==
    IF Len(list) < 2 \/ ~bestCandidate.some
    THEN Rat(0, 1)
    ELSE LET bestPos == positionOf(bestCandidate.val)
             positions == positionsOf(list)
             count == Len(positions)
             totalDistance ==
                 SumSeq([k \in DOMAIN positions |->
                            distance(positions[k], bestPos.val)])
         IN  IF ~bestPos.some
             THEN Rat(0, 1)
             ELSE IF count > 0
             THEN Rat(count, count + totalDistance)
             ELSE Rat(1, 1)

\* history[state.currentStep]
SidebarFrame(s) == ArrayAt(s.history, s.currentStep)

SidebarExplorers(s) ==
    Coalesce(Get(SidebarFrame(s), "candidates"),
             Coalesce(Get(s.solution, "final_candidates"), Some(<<>>)))

SidebarFrameBest(s) ==
    Coalesce(Get(SidebarFrame(s), "best"), Get(s.solution, "best_candidate"))

\* a chain that also passes over a value of 0
upstreamMetric_Falsy(s, name) ==
    LET OrElse(a, b) == IF a.some /\ a.val.num # 0 THEN a ELSE b
    IN  OrElse(Get(SidebarFrame(s), name),
               OrElse(Get(Get(SidebarFrame(s), "metrics"), name),
                      OrElse(Get(s.solution, name),
                             Get(Get(s.solution, "metrics"), name))))

\* frame?.x ?? frame?.metrics?.x ?? solution?.x ?? solution?.metrics?.x ?? null
upstreamMetric(s, name) ==
    Coalesce(Get(SidebarFrame(s), name),
             Coalesce(Get(Get(SidebarFrame(s), "metrics"), name),
                      Coalesce(Get(s.solution, name),
                               Get(Get(s.solution, "metrics"), name))))

\* the two metrics of the Sidebar, each with its value (none shows '-') and
\* whether the client-side function was called for it
SidebarOf(s) ==
    LET list == SidebarExplorers(s).val
        computeDiversity ==
            ~upstreamMetric(s, "diversity").some /\ Len(list) > 0 /\ s.maze.rows > 0
        computeConvergence ==
            ~upstreamMetric(s, "convergence").some /\ Len(list) > 0
                /\ SidebarFrameBest(s).some
    IN  [diversity |->
            [value |-> IF computeDiversity
                       THEN Some(calculateDiversity(list, s.maze))
                       ELSE upstreamMetric(s, "diversity"),
             computed |-> computeDiversity],
         convergence |->
            [value |-> IF computeConvergence
                       THEN Some(calculateConvergence(list, SidebarFrameBest(s)))
                       ELSE upstreamMetric(s, "convergence"),
             computed |-> computeConvergence]]

\* the Sidebar renders the current state
RenderSidebar ==
    /\ sidebar # Some(SidebarOf(state))
    /\ sidebar' = Some(SidebarOf(state))
    /\ last' = "RenderSidebar"
    /\ UNCHANGED <<state, inflight, nextId, cont, rafOn, stepDur, playDeps,
                   sizeDep, algDep, quota, elapsed, canvas>>

MetricCandidate(position, path) == [position |-> position, path |-> path]

MetricCandidates ==
    {<<MetricCandidate(None, Some(<<<<0, 0>>>>))>>,
     <<MetricCandidate(None, Some(<<<<4, 0>>, <<0, 3>>>>)),
       MetricCandidate(Some(<<0, 3>>), None)>>,
     <<MetricCandidate(None, Some(<<<<0, 0>>>>)),
       MetricCandidate(None, Some(<<>>)),
       MetricCandidate(None, None)>>,
     <<MetricCandidate(None, Some(<<<<0, 0>>>>)),
       MetricCandidate(Some(<<0, 3>>), Some(<<<<0, 0>>, <<0, 3>>>>)),
       MetricCandidate(None, Some(<<<<0, 0>>, <<4, 0>>>>))>>,
     <<MetricCandidate(None, Some(<<<<0, 0>>>>)),
       MetricCandidate(None, Some(<<<<0, 0>>, <<4, 3>>>>))>>,
     <<MetricCandidate(None, None), MetricCandidate(None, Some(<<>>))>>,
     <<MetricCandidate(Some(<<0, 3>>), None),
       MetricCandidate(None, Some(<<<<0, 3>>>>)),
       MetricCandidate(None, Some(<<<<0, 0>>>>))>>}

MetricBests ==
    {None,
     Some(MetricCandidate(None, Some(<<<<4, 3>>, <<0, 0>>>>))),
     Some(MetricCandidate(Some(<<0, 3>>), None)),
     Some(MetricCandidate(None, Some(<<>>)))}

\* what a frame or a solution carries of the two metrics
MetricCarriers ==
    {[diversity |-> None, convergence |-> None, metrics |-> None],
     [diversity |-> Some(Rat(0, 1)), convergence |-> None, metrics |-> None],
     [diversity |-> None, convergence |-> Some(Rat(1, 4)),
      metrics |-> Some([diversity |-> None, convergence |-> Some(Rat(3, 4))])],
     [diversity |-> None, convergence |-> None,
      metrics |-> Some([diversity |-> Some(Rat(1, 2)),
                        convergence |-> Some(Rat(0, 1))])]}

MetricFrames ==
    {[candidates |-> Some(list), best |-> b, diversity |-> c.diversity,
      convergence |-> c.convergence, metrics |-> c.metrics] :
        list \in MetricCandidates, b \in MetricBests, c \in MetricCarriers}

MetricSolutions ==
    {None}
    \cup
    {Some([final_candidates |-> Some(<<MetricCandidate(Some(<<4, 0>>), None),
                                       MetricCandidate(Some(<<4, 3>>), None)>>),
           best_candidate |-> Some(MetricCandidate(Some(<<4, 3>>), None)),
           diversity |-> c.diversity, convergence |-> c.convergence,
           metrics |-> c.metrics]) :
        c \in {k \in MetricCarriers : ~k.diversity.some}}

MetricMazes == {[rows |-> 0, cols |-> 0], [rows |-> 4, cols |-> 4],
                [rows |-> 2, cols |-> 8]}

\* a state with no frame or one frame on display, with or without solution
InitMetrics ==
    /\ \E h \in {<<>>} \cup {<<f>> : f \in MetricFrames},
          sol \in MetricSolutions, mz \in MetricMazes :
           state = update(InitialState,
                          [history |-> h, solution |-> sol, maze |-> mz])
    /\ inflight = {}
    /\ nextId = 0
    /\ cont = <<>>
    /\ rafOn = FALSE
    /\ stepDur = 0
    /\ playDeps = PlayDepsOf(state)
    /\ sizeDep = state.desiredSize
    /\ algDep = state.algorithm
    /\ quota = 0
    /\ elapsed = 0
    /\ last = "render"
    /\ canvas = None
    /\ sidebar = None

NextMetrics == RenderSidebar

SpecMetrics == InitMetrics /\ [][NextMetrics]_vars

\* ================================================================ properties
HistLen == Len(state.history)

\* the playback sits on the last frame, fully revealed
EndPosition ==
    /\ HistLen > 0
    /\ state.currentStep = HistLen - 1
    /\ state.frameProgress = ProgressOne

\* the history on display belongs to a run the solver reported as unsolved
FailedHistory == HistLen > 0 /\ ~state.history[1].solved

\* C1: a failed run (solved = false, non-empty history) is never seen with
\* playback values other than currentStep = history.length - 1,
\* frameProgress = 1, isRunning = false: the state in which its history first
\* appears has them, and no tick or other step changes them while that
\* history is on display.
C1_FailedRunSnapsToEnd ==
    FailedHistory => (EndPosition /\ ~state.isRunning)

C1_Witness ==
    /\ last = "SolveResponse"
    /\ FailedHistory
    /\ HistLen >= 2
    /\ state.currentStep = HistLen - 1

\* C2: a tick that brings progress to 1 or more while currentStep is the last
\* history index stops the playback and clamps frameProgress to 1.
C2_TickClampsAtEnd ==
    [][\A delta \in Deltas :
          ( /\ Tick(delta)
            /\ state.isRunning
            /\ HistLen > 0
            /\ state.currentStep = HistLen - 1
            /\ state.frameProgress + (delta * ProgressOne) \div stepDur >= ProgressOne )
          => (~state'.isRunning /\ state'.frameProgress = ProgressOne)]_vars

\* C3: from step 0 / progress 0 and with a fixed step duration D, after ticks
\* whose deltas sum to T with floor(T/D) < history.length, the clock reports
\* currentStep = floor(T/D) and frameProgress = T/D - floor(T/D).
C3_ClockFollowsElapsedTime ==
    LET total == (elapsed * ProgressOne) \div stepDur
    IN  total \div ProgressOne < HistLen
        => /\ state.currentStep = total \div ProgressOne
           /\ state.frameProgress = total % ProgressOne

\* C4: whenever isRunning is true, 0 <= frameProgress < 1.
C4_RunningProgressBelowOne ==
    state.isRunning => (0 <= state.frameProgress /\ state.frameProgress < ProgressOne)

\* C5: a tick that fires while isRunning is false (after Stop, after
\* resetPlayback or handleReset, before the cancellation of the loop has taken
\* effect) is a no-op: it leaves the whole state object unchanged.
C5_StaleTickIsNoOp ==
    [][(last' = "tick" /\ ~state.isRunning) => state' = state]_vars

\* C6: once the playback sits on the last frame with frameProgress = 1, a tick
\* leaves isRunning false and the position fixed; speed and toggle changes
\* leave isRunning and the position as they are; and isRunning turns from
\* false to true only by a solve response with solved = true and a non-empty
\* history.
C6_EndIsStable ==
    [][ /\ (EndPosition /\ last' = "tick")
            => (~state'.isRunning
                /\ state'.currentStep = state.currentStep
                /\ state'.frameProgress = state.frameProgress
                /\ state'.history = state.history)
        /\ (EndPosition /\ last' \in {"SetSpeed", "ToggleLayer"})
            => (state'.isRunning = state.isRunning
                /\ state'.currentStep = state.currentStep
                /\ state'.frameProgress = state.frameProgress
                /\ state'.history = state.history)
        /\ (~state.isRunning /\ state'.isRunning)
            => (last' = "SolveResponse"
                /\ state'.solution.solved
                /\ Len(state'.history) > 0) ]_vars

C6_Witness ==
    /\ EndPosition
    /\ ~state.isRunning
    /\ last = "tick"
    /\ state.history[1].solved

\* C7: no state pairs the maze or solution of one response with the history
\* of another run: a response that replaces the maze resets the playback in
\* the same state update.
C7_ResponseResetsPlaybackAtomically ==
    /\ HistLen > 0 => state.history[1].run = state.maze
    /\ (HistLen > 0 /\ state.solution.present)
           => state.history[1].run = state.solution.run
    /\ state.solution.present => state.solution.run = state.maze

\* C8: every transition that changes the algorithm selection leaves the
\* playback at currentStep = 0, frameProgress = 0, isRunning = false with the
\* previous history discarded, so that no history is shown under the type tag
\* of an algorithm it was not recorded for.
C8_AlgorithmChangeResetsPlayback ==
    [][state'.algorithm # state.algorithm
          => /\ state'.currentStep = 0
             /\ state'.frameProgress = 0
             /\ ~state'.isRunning
             /\ state'.history = <<>>]_vars

\* C9: requests are never cancelled and every response is applied when it
\* resolves, whatever was issued or applied since: a request leaves the set
\* in flight only when its own response arrives, and a successful response
\* then puts its own maze (and, for a solve response, its own solution and
\* history) into the state, also when a later-issued request resolved before.
C9_LastResolvedResponseWins ==
    [][\A req \in inflight :
          req \notin inflight'
          => /\ inflight' = inflight \ {req}
                      /\ last' \in {"MazeResponse", "MazeFailure",
                           "SolveResponse", "SolveFailure"}
             /\ last' = "MazeResponse"
                    => (state'.maze = req.id /\ ~state'.solution.present)
             /\ last' = "SolveResponse"
                    => /\ state'.maze = req.id
                       /\ state'.solution.run = req.id
                       /\ \A i \in DOMAIN state'.history :
                              state'.history[i].run = req.id ]_vars

\* two overlapping requests resolved in the reverse of their issue order: the
\* history of the later-issued solve request was on display when the response
\* of an earlier-issued maze request arrived, and the state shows that maze
C9_Witness ==
    /\ last = "MazeResponse"
    /\ HistLen > 0
    /\ state.history[1].run > state.maze

\* C10: when a solve request fails, runFailed is set and, if a history is
\* present, the playback is forced to currentStep = history.length - 1,
\* frameProgress = 1, isRunning = false.
C10_SolveFailureForcesTerminalFrame ==
    [][last' = "SolveFailure"
          => /\ state'.runFailed
             /\ Len(state'.history) > 0
                    => /\ state'.currentStep = Len(state'.history) - 1
                       /\ state'.frameProgress = ProgressOne
                       /\ ~state'.isRunning]_vars

\* C11: a failed maze or solve request puts a non-empty message into error,
\* the step that follows it clears loading and keeps the message, a runSolver
\* whose maze request failed returns without sending anything, and the number
\* of requests sent grows only by one at a time and only in a fetchMaze or
\* runSolver call (New Maze, Start Solver, the size-change effect, the second
\* request of a runSolver whose maze request succeeded): never after a failure.
C11_FailureSurfacesNoRetry ==
    [][ /\ last' \in {"MazeFailure", "SolveFailure"}
            => /\ state'.error # ""
               /\ nextId' = nextId
               /\ inflight' \subseteq inflight
               /\ cont' # <<>> /\ Head(cont').op = "loadingOff"
        /\ last \in {"MazeFailure", "SolveFailure"}
            => /\ last' = "loadingOff"
               /\ ~state'.loading
               /\ state'.error = state.error /\ state'.error # ""
               /\ nextId' = nextId /\ inflight' = inflight
        /\ (cont # <<>> /\ Head(cont).op = "resume" /\ Head(cont).seed = NoSeed)
            => /\ state' = state
               /\ nextId' = nextId /\ inflight' = inflight
        /\ nextId' # nextId
            => /\ nextId' = nextId + 1
               /\ Cardinality(inflight') = Cardinality(inflight) + 1
               /\ last' \in {"NewMaze", "StartSolver", "effects",
                             "runSolverResume"} ]_vars

\* the maze request of a runSolver call failed: the message is shown, loading
\* is off, runSolver has returned and nothing is in flight
C11_Witness ==
    /\ last = "runSolverReturn"
    /\ state.error = ApiError
    /\ ~state.loading
    /\ state.mazeSeed = NoSeed
    /\ inflight = {}

\* C12: a Start Solver click whose validation fails sends no request and
\* changes no field of the state but error; and no solve request in flight
\* carries a tuning parameter that is zero or negative.
C12_ValidationGuardsRequests ==
    [][ /\ (last' = "StartSolver" /\ ValidationError(state) # "")
            => /\ nextId' = nextId /\ inflight' = inflight
               /\ state'.error # ""
               /\ state' = update(state, [error |-> state'.error])
        /\ \A req \in inflight' :
               req.kind = "solve"
               => \A k \in DOMAIN req.params : req.params[k] > 0 ]_vars

\* C13: a playback over an empty history never starts: whenever isRunning is
\* true the history has at least one frame.
C13_RunningHasHistory == state.isRunning => Len(state.history) > 0

\* a maze response has just been applied while a run was playing: the
\* playback still runs, over the history it was started with
C13_Witness ==
    /\ state.isRunning
    /\ last = "MazeResponse"
    /\ Len(state.history) > 0

\* C14: right after a solve response whose history has exactly one frame has
\* been applied, solved or not, frameProgress = 1 and isRunning = false.
C14_SingleFrameResolvesAtOnce ==
    (last = "SolveResponse" /\ Len(state.history) = 1)
        => (state.frameProgress = ProgressOne /\ ~state.isRunning)

\* C15: while isRunning stays true, currentStep never decreases, whatever the
\* step taken.
C15_StepMonotoneWhileRunning ==
    [][(state.isRunning /\ state'.isRunning)
          => state'.currentStep >= state.currentStep]_vars

C17_ResetClearsRunKeepsConfig ==
    [][last' = "Reset"
          => /\ state'.maze = 0
             /\ state'.history = <<>>
             /\ state'.solution = NoSolution
             /\ state'.mazeSeed = NoSeed
             /\ state'.currentStep = 0
             /\ state'.frameProgress = 0
             /\ ~state'.isRunning
             /\ state'.error = ""
             /\ ~state'.runFailed
             /\ \A f \in ConfigFields : state'[f] = state[f] ]_vars

\* Reset has just been clicked while a run was playing (its loop is not yet
\* cancelled), with a speed other than the initial one
C17_Witness ==
    /\ last = "Reset"
    /\ rafOn
    /\ state.speedMs # InitialState.speedMs
    /\ state.history = <<>>

\* the frame the spec names activeFrame, for the state drawn
ActiveFrame ==
    IF Len(state.history) = 0
    THEN None
    ELSE Some(state.history[Min(state.currentStep, Len(state.history) - 1) + 1])

\* C18: the frame the Canvas effect takes is History[min(currentStep,
\* length - 1)] when the history has frames and no frame when it is empty,
\* whatever currentStep is.
C18_ActiveFrameIsClamped ==
    last = "draw" => canvas.val.frame = ActiveFrame

\* a pass drawn with the cursor beyond the last index of a two-frame history
C18_Witness ==
    /\ last = "draw"
    /\ Len(state.history) = 2
    /\ state.currentStep > 2
    /\ canvas.val.frame = Some(state.history[2])

\* C19: the explorer list handed to the renderer is the frame's candidates
\* if present, else the solution's final_candidates, else the empty list,
\* and is never missing; the best candidate is the frame's best, else the
\* solution's best_candidate, else none; the best path is that candidate's
\* path if present, else the solution's path, else empty.
C19_RendererFallbackChains ==
    last = "draw"
    => LET sol == state.solution
           list == IF ActiveFrame.some /\ ActiveFrame.val.candidates.some
                   THEN ActiveFrame.val.candidates.val
                   ELSE IF sol.some /\ sol.val.final_candidates.some
                   THEN sol.val.final_candidates.val
                   ELSE <<>>
           best == IF ActiveFrame.some /\ ActiveFrame.val.best.some
                   THEN ActiveFrame.val.best
                   ELSE IF sol.some /\ sol.val.best_candidate.some
                   THEN sol.val.best_candidate
                   ELSE None
           path == IF best.some /\ best.val.path.some
                   THEN best.val.path.val
                   ELSE IF sol.some /\ sol.val.path.some
                   THEN sol.val.path.val
                   ELSE <<>>
       IN  /\ canvas.val.explorers.some
           /\ canvas.val.explorers.val = list
           /\ canvas.val.frameBest = best
           /\ canvas.val.bestPath.some
           /\ canvas.val.bestPath.val = path

\* a pass whose frame has neither candidates nor best, drawn from the
\* solution's final candidates and from the path of its best candidate
C19_Witness ==
    /\ last = "draw"
    /\ ActiveFrame.some
    /\ ~ActiveFrame.val.candidates.some /\ ~ActiveFrame.val.best.some
    /\ state.solution.some
    /\ Len(canvas.val.explorers.val) = 1
    /\ canvas.val.bestPath.val = <<<<1, 0>>>>

\* C20: for a progress g in [0, 1] and every explorer path of L >= 1 cells,
\* the segment drawn is the first clamp(floor(L * g), 1, L) cells and the head
\* marker sits on the last cell of that segment; the best path is cut the
\* same way; each path is cut by its own length against the one progress.
C20_PrefixLengthIsClamped ==
    (last = "draw" /\ canvas.val.image.some
        /\ canvas.val.image.val.progress >= 0
        /\ canvas.val.image.val.progress <= ProgressOne)
    => LET image == canvas.val.image.val
           Cut(len) == Max(1, Min(len, (len * image.progress) \div ProgressOne))
           list == canvas.val.explorers.val
           best == canvas.val.bestPath.val
       IN  /\ \A i \in DOMAIN list :
                  (list[i].path.some /\ Len(list[i].path.val) >= 1)
                  => LET q == list[i].path.val
                     IN  /\ image.explorers[i].segment = Some(SubSeq(q, 1, Cut(Len(q))))
                         /\ image.explorers[i].marker = Some(q[Cut(Len(q))])
           /\ (Len(best) >= 1 /\ ~image.threw)
                  => image.bestPath = Some(SubSeq(best, 1, Cut(Len(best))))
           /\ (image.progress = 0 /\ Len(best) >= 1 /\ ~image.threw)
                  => Len(image.bestPath.val) = 1
           /\ (image.progress = ProgressOne /\ Len(best) >= 1 /\ ~image.threw)
                  => image.bestPath.val = best

\* a running pass at progress 0.75 over explorers of 2 and 3 cells: 1 and 2
\* cells are drawn, each marker on the last drawn cell of its own path
C20_Witness ==
    /\ last = "draw" /\ canvas.val.image.some
    /\ canvas.val.image.val.progress = 75
    /\ Len(canvas.val.explorers.val) = 2
    /\ canvas.val.image.val.explorers[1].segment = Some(<<<<0, 0>>>>)
    /\ canvas.val.image.val.explorers[2].segment = Some(<<<<0, 0>>, <<0, 1>>>>)
    /\ canvas.val.image.val.explorers[2].marker = Some(<<0, 1>>)

\* -------------------------------------------------------- layer properties
\* the pass drew something in the layer
Drawn(pass, layer) == \E k \in DOMAIN pass.ops : pass.ops[k].layer = layer

\* the drawing calls of the pass outside the layer
Without(ops, layer) == SelectSeq(ops, LAMBDA op : op.layer # layer)

\* C21: missing optional data is never an error: with a candidate whose
\* path is empty or absent, a candidate without velocity or a frame without
\* pheromone map, drawMaze completes the pass without throwing and still
\* draws every later layer (the best path when it has points, the start and
\* goal markers of the solution).
C21_MissingDataIsNeverAnError ==
    (canvas.some /\ canvas.val.args.maze # 0)
    => LET args == canvas.val.args
           pass == canvas.val.pass
       IN  /\ ~pass.threw
           /\ Len(args.bestPath) > 0 => Drawn(pass, "bestPath")
           /\ args.solution.some => Drawn(pass, "markers")

\* the position of a layer in the back-to-front order of the renderer
LayerRank(layer) ==
    CASE layer = "grid" -> 1
      [] layer \in {"pheromone", "heat"} -> 2
      [] layer = "border" -> 3
      [] layer = "explorers" -> 4
      [] layer = "velocity" -> 5
      [] layer = "top" -> 6
      [] layer = "bestPath" -> 7
      [] layer = "markers" -> 8
      [] layer \in {"diversity", "convergence"} -> 9

\* C22: in every pass, for every combination of toggles and algorithm, the
\* drawing calls come in the order base grid, background overlay, border,
\* candidate trajectories with head markers, velocity arrows, top-N
\* highlights, best path, start/goal markers, HUD indicators: no call of an
\* earlier layer follows a call of a later one.
C22_LayersBackToFront ==
    canvas.some
    => LET ops == canvas.val.pass.ops
       IN  \A i, j \in DOMAIN ops :
               i < j => LayerRank(ops[i].layer) <= LayerRank(ops[j].layer)

\* a PSO pass that drew arrows, highlights, the best path, the markers and
\* both HUD bars
C22_Witness ==
    /\ canvas.some
    /\ \A layer \in {"grid", "border", "explorers", "velocity", "top",
                     "bestPath", "markers", "diversity", "convergence"} :
           Drawn(canvas.val.pass, layer)

\* C23: the pheromone field is drawn only when the algorithm is 'ant', its
\* toggle is on and the frame has a pheromone map; the heat field only when
\* the algorithm is 'genetic' and its toggle is on; velocity arrows only
\* when the algorithm is 'pso' and their toggle is on; no pass draws both
\* the pheromone field and the heat field.
C23_OverlaysAreGated ==
    canvas.some
    => LET args == canvas.val.args
           pass == canvas.val.pass
       IN  /\ Drawn(pass, "pheromone")
              => (args.algorithmType = "ant" /\ args.showPheromones
                  /\ args.pheromoneMap.some)
           /\ Drawn(pass, "heat")
              => (args.algorithmType = "genetic" /\ args.showHeatmap)
           /\ Drawn(pass, "velocity")
              => (args.algorithmType = "pso" /\ args.showVelocities)
           /\ ~(Drawn(pass, "pheromone") /\ Drawn(pass, "heat"))

\* a genetic pass that drew the heat field while the pheromone toggle was
\* on and the frame had a pheromone map
C23_Witness ==
    /\ canvas.some
    /\ Drawn(canvas.val.pass, "heat")
    /\ canvas.val.args.showPheromones
    /\ canvas.val.args.pheromoneMap.some

\* the drawing calls of a pass with the given arguments and the velocity
\* toggle set as given
OpsWithVelocities(args, on) ==
    drawMazeOnCanvas(DefaultContext, [args EXCEPT !.showVelocities = on]).ops

\* C24: for a PSO frame, the drawing calls of a pass with showVelocities
\* off, each with the context attributes it reads, are the calls of the pass
\* with showVelocities on with exactly the calls of the arrow layer removed.
C24_VelocityToggleRemovesOnlyArrows ==
    (canvas.some /\ canvas.val.args.maze # 0
        /\ canvas.val.args.algorithmType = "pso")
    => LET args == canvas.val.args
       IN  /\ canvas.val.pass.ops = OpsWithVelocities(args, args.showVelocities)
           /\ OpsWithVelocities(args, FALSE)
                = Without(OpsWithVelocities(args, TRUE), "velocity")

\* a PSO pass drawn with the velocity toggle off, with highlights and the
\* best path, whose frame has velocity data that draws an arrow when on
C24_Witness ==
    /\ canvas.some
    /\ canvas.val.args.maze # 0
    /\ canvas.val.args.algorithmType = "pso"
    /\ ~canvas.val.args.showVelocities
    /\ ~Drawn(canvas.val.pass, "velocity")
    /\ Drawn(canvas.val.pass, "top")
    /\ Drawn(canvas.val.pass, "bestPath")
    /\ \E k \in DOMAIN OpsWithVelocities(canvas.val.args, TRUE) :
           OpsWithVelocities(canvas.val.args, TRUE)[k].layer = "velocity"

\* C25: the HUD is toggleable from the UI: a pass issued by the Canvas
\* component for a non-empty explorer list draws the diversity bar exactly
\* when the showMetrics toggle is on, and the convergence bar exactly when
\* the toggle is on and the best path has points.
C25_MetricsToggleDrawsHud ==
    (last = "PaintCanvas" /\ canvas.val.args.maze # 0 /\ ~canvas.val.pass.threw
        /\ Len(canvas.val.args.explorers) > 0)
    => /\ Drawn(canvas.val.pass, "diversity") <=> state.showMetrics
       /\ Drawn(canvas.val.pass, "convergence")
          <=> (state.showMetrics /\ Len(canvas.val.args.bestPath) > 0)

\* C26: a pass leaves the explorer array as it was given, order included,
\* and a pass whose arguments equal those of the pass before on the same
\* canvas issues the same drawing calls with the same context attributes:
\* what the first pass left on the context does not reach the second.
C26_PassIsPureAndIdempotent ==
    [][(canvas'.some /\ canvas' # canvas)
       => /\ canvas'.val.pass.explorers = canvas'.val.args.explorers
          /\ canvas'.val.again => canvas'.val.pass.ops = canvas.val.pass.ops]_vars

\* a second pass on the same arguments that drew the top performers of a
\* list that is not in fitness order
C26_Witness ==
    /\ canvas.some
    /\ canvas.val.again
    /\ Drawn(canvas.val.pass, "top")
    /\ sorted(canvas.val.args.explorers) # canvas.val.args.explorers
    /\ canvas.val.pass.explorers = canvas.val.args.explorers

\* the fillText calls of the top-performer layer, in the order issued
Badges(pass) ==
    SelectSeq(pass.ops, LAMBDA op : op.layer = "top" /\ op.op = "fillText")

\* the glow fills of the top-performer layer: the first call of each group
\* of four the layer issues per performer
Glows(pass) ==
    LET top == SelectSeq(pass.ops, LAMBDA op : op.layer = "top")
    IN  [k \in 1..(Len(top) \div 4) |-> top[4 * k - 3]]

\* candidate i comes before candidate j in the ranking: a higher fitness
\* (a missing one counting as 0), or the same fitness and earlier in the list
Outranks(list, i, j) ==
    LET Fit(k) == IF list[k].fitness.some THEN list[k].fitness.val ELSE 0
    IN  Fit(i) > Fit(j) \/ (Fit(i) = Fit(j) /\ i < j)

RankIn(list, j) == 1 + Cardinality({i \in DOMAIN list : Outranks(list, i, j)})

\* C30: the top-performer layer highlights exactly the candidates ranked
\* 1 .. min(5, n) by descending fitness (missing fitness as 0, ties in list
\* order) that have path points: each gets one badge carrying its rank at
\* the last point of its path, badges come in rank order, a candidate of
\* the first five without path points gets none and nobody takes its rank,
\* and a lower rank number has a strictly stronger glow.
C30_TopPerformersByRank ==
    (canvas.some /\ canvas.val.args.maze # 0 /\ ~canvas.val.pass.threw
        /\ canvas.val.args.showTopPerformers)
    => LET list == canvas.val.args.explorers
           badges == Badges(canvas.val.pass)
           glows == Glows(canvas.val.pass)
           shown == {j \in DOMAIN list :
                        /\ RankIn(list, j) <= Min(5, Len(list))
                        /\ list[j].path.some /\ Len(list[j].path.val) > 0}
       IN  /\ Len(badges) = Cardinality(shown)
           /\ Len(glows) = Len(badges)
           /\ \A j \in shown :
                  \E k \in DOMAIN badges :
                      /\ badges[k].text = RankIn(list, j)
                      /\ badges[k].at = <<list[j].path.val[Len(list[j].path.val)]>>
                      /\ glows[k].at = badges[k].at
           /\ \A k, m \in DOMAIN badges :
                  k < m => /\ badges[k].text < badges[m].text
                           /\ glows[k].uses.fillStyle.arg > glows[m].uses.fillStyle.arg

\* a running pass over six candidates: the second-ranked one has no path
\* points, so the badges are 1, 3, 4 and 5, the sixth-ranked candidate
\* (without fitness) gets none, and badge 1 sits at the end of a path whose
\* visible head is still at its first cell
C30_Witness ==
    /\ canvas.some /\ ~canvas.val.pass.threw
    /\ canvas.val.args.isRunning
    /\ Len(canvas.val.args.explorers) = 6
    /\ [k \in DOMAIN Badges(canvas.val.pass) |-> Badges(canvas.val.pass)[k].text]
         = <<1, 3, 4, 5>>
    /\ Badges(canvas.val.pass)[1].at = <<<<0, 1>>>>

\* the text of the label a HUD bar carries, none when the bar is not drawn
HudLabel(pass, layer) ==
    LET labels == SelectSeq(pass.ops,
                            LAMBDA op : op.layer = layer /\ op.op = "fillText")
    IN  IF Len(labels) = 1 THEN Some(labels[1].text) ELSE None

\* the candidates of the list that have a last path point
Ended(list) == {i \in DOMAIN list : list[i].path.some /\ Len(list[i].path.val) > 0}

LastCell(list, i) == list[i].path.val[Len(list[i].path.val)]

\* C31: the HUD values are fractions in [0, 1]: the diversity bar shows the
\* number of distinct candidate end-positions over the population size and
\* the convergence bar the number of candidates whose end-position is
\* within 3 cells, in row and in column, of some point of the best path
\* over the population size, also for lists with empty paths; the label is
\* that fraction as a rounded percentage.
C31_HudValuesAreFractions ==
    (canvas.some /\ Drawn(canvas.val.pass, "diversity"))
    => LET list == canvas.val.args.explorers
           path == canvas.val.args.bestPath
           n == Len(list)
           unique == Cardinality({LastCell(list, i) : i \in Ended(list)})
           near == Cardinality(
                       {i \in Ended(list) :
                           \E k \in DOMAIN path :
                               /\ path[k][1] - LastCell(list, i)[1] \in -3..3
                               /\ path[k][2] - LastCell(list, i)[2] \in -3..3})
           Rounded(count) == CHOOSE pc \in 0..100 :
                                 /\ 2 * n * pc <= 200 * count + n
                                 /\ 200 * count + n < 2 * n * (pc + 1)
       IN  /\ unique <= n /\ near <= n
           /\ HudLabel(canvas.val.pass, "diversity") = Some(Rounded(unique))
           /\ Len(path) > 0
              => HudLabel(canvas.val.pass, "convergence") = Some(Rounded(near))

\* a pass over six candidates, one without path points, two ending on the
\* same cell and one ending 4 columns from the best path: 4 distinct
\* end-positions and 4 candidates near the best path give 67% on both bars
C31_Witness ==
    /\ canvas.some
    /\ Len(canvas.val.args.explorers) = 6
    /\ HudLabel(canvas.val.pass, "diversity") = Some(67)
    /\ HudLabel(canvas.val.pass, "convergence") = Some(67)

\* ------------------------------------------------------ sidebar properties
\* the values of a metric the displayed frame and the solution carry
CarriedValues(name) ==
    LET shown == IF Len(state.history) > 0
                 THEN Some(state.history[Min(state.currentStep,
                                             Len(state.history) - 1) + 1])
                 ELSE None
        holders == (IF shown.some THEN {shown.val} ELSE {})
                   \cup (IF state.solution.some THEN {state.solution.val} ELSE {})
    IN  {h[name].val : h \in {k \in holders : k[name].some}}
        \cup {h.metrics.val[name].val :
                 h \in {k \in holders : k.metrics.some /\ k.metrics.val[name].some}}

\* C27: upstream metrics take precedence: when the frame or the solution
\* carries a diversity (resp. convergence), the value 0 included, the
\* Sidebar displays a carried value and does not call calculateDiversity
\* (resp. calculateConvergence); the function is called only when neither
\* carries one.
C27_UpstreamMetricsTakePrecedence ==
    last = "RenderSidebar"
    => \A name \in {"diversity", "convergence"} :
           LET shown == sidebar.val[name]
           IN  /\ CarriedValues(name) # {}
                  => (~shown.computed /\ shown.value.some
                      /\ shown.value.val \in CarriedValues(name))
               /\ shown.computed => CarriedValues(name) = {}

\* a Sidebar showing the diversity 0 carried by the frame, for explorers
\* whose computed diversity would not be 0, and a computed convergence
C27_Witness ==
    /\ last = "RenderSidebar"
    /\ CarriedValues("diversity") = {Rat(0, 1)}
    /\ sidebar.val.diversity.value = Some(Rat(0, 1))
    /\ state.maze.rows > 0
    /\ calculateDiversity(SidebarExplorers(state).val, state.maze).num > 0
    /\ sidebar.val.convergence.computed

\* the end-position of a candidate: its position, the last point of its
\* path when it reports no position, none without either
EndCell(e) ==
    IF e.position.some THEN {e.position.val}
    ELSE IF e.path.some /\ Len(e.path.val) > 0 THEN {e.path.val[Len(e.path.val)]}
    ELSE {}

\* the candidates of the list that have an end-position
Placed(list) == {i \in DOMAIN list : EndCell(list[i]) # {}}

\* the square of the distance between the end-positions of two candidates
SquaredGap(list, i, j) ==
    LET a == CHOOSE c \in EndCell(list[i]) : TRUE
        b == CHOOSE c \in EndCell(list[j]) : TRUE
    IN  (a[1] - b[1]) * (a[1] - b[1]) + (a[2] - b[2]) * (a[2] - b[2])

\* the whole number whose square is n
RootOf(n) == CHOOSE r \in 0..n : r * r = n

\* the sum of the distances over the given pairs of candidates
RECURSIVE SumOver(_, _)
SumOver(list, pairs) ==
    IF pairs = {}
    THEN 0
    ELSE LET pr == CHOOSE x \in pairs : TRUE
         IN  RootOf(SquaredGap(list, pr[1], pr[2])) + SumOver(list, pairs \ {pr})

\* C28: a diversity computed by calculateDiversity is a fraction >= 0; it is
\* 0 when fewer than 2 candidates have an end-position and 0 for two
\* candidates with the same end-position; with at least 2 end-positions it
\* is the mean distance over the pairs of end-positions divided by
\* sqrt(rows * cols).
C28_DiversityIsNormalisedMeanDistance ==
    (last = "RenderSidebar" /\ sidebar.val.diversity.computed)
    => LET v == sidebar.val.diversity.value.val
           list == SidebarExplorers(state).val
           n == Cardinality(Placed(list))
           pairs == {pr \in Placed(list) \X Placed(list) : pr[1] < pr[2]}
           total == SumOver(list, pairs)
       IN  /\ v.num >= 0 /\ v.den > 0
           /\ n < 2 => v.num = 0
           /\ (n = 2 /\ total = 0) => v.num = 0
           /\ n >= 2
              => v.num * Cardinality(pairs)
                     * RootOf(state.maze.rows * state.maze.cols)
                 = total * v.den

\* a computed diversity of three candidates at distances 3, 4 and 5 from one
\* another in a 2 x 8 maze: the mean 4 over sqrt(16) = 4
C28_Witness ==
    /\ last = "RenderSidebar" /\ sidebar.val.diversity.computed
    /\ Cardinality(Placed(SidebarExplorers(state).val)) = 3
    /\ state.maze = [rows |-> 2, cols |-> 8]
    /\ sidebar.val.diversity.value.val.num = sidebar.val.diversity.value.val.den

\* the distance from candidate i of the list to the end-position of best
GapToBest(list, i, best) ==
    LET a == CHOOSE c \in EndCell(list[i]) : TRUE
        b == CHOOSE c \in EndCell(best) : TRUE
    IN  RootOf((a[1] - b[1]) * (a[1] - b[1]) + (a[2] - b[2]) * (a[2] - b[2]))

RECURSIVE TotalGap(_, _, _)
TotalGap(list, among, best) ==
    IF among = {}
    THEN 0
    ELSE LET i == CHOOSE x \in among : TRUE
         IN  GapToBest(list, i, best) + TotalGap(list, among \ {i}, best)

\* for the same best candidate, a list whose mean distance to it is larger
\* has a strictly smaller convergence
DecreasesWithMeanDistance(list, best) ==
    \A other \in MetricCandidates :
        (Len(other) >= 2 /\ Placed(other) # {} /\ Placed(list) # {}
            /\ TotalGap(other, Placed(other), best.val) * Cardinality(Placed(list))
                 > TotalGap(list, Placed(list), best.val) * Cardinality(Placed(other)))
        => calculateConvergence(other, best).num * calculateConvergence(list, best).den
             < calculateConvergence(list, best).num * calculateConvergence(other, best).den

\* C29 as stated: a convergence computed by calculateConvergence is 0 with
\* fewer than 2 candidates or a best candidate without end-position, exactly
\* 1 when every candidate of the list has the end-position of the best
\* candidate, and otherwise lies strictly between 0 and 1 and strictly
\* decreases as the mean distance to the best end-position grows.
C29_ConvergenceOfAllCandidates ==
    (last = "RenderSidebar" /\ sidebar.val.convergence.computed)
    => LET v == sidebar.val.convergence.value.val
           list == SidebarExplorers(state).val
           best == SidebarFrameBest(state)
       IN  IF Len(list) < 2 \/ EndCell(best.val) = {}
           THEN v.num = 0
           ELSE IF \A i \in DOMAIN list : EndCell(list[i]) = EndCell(best.val)
           THEN v.num = v.den
           ELSE /\ 0 < v.num /\ v.num < v.den
                /\ DecreasesWithMeanDistance(list, best)

\* C29, amended: candidates without end-position are left out: the
\* convergence is 0 with fewer than 2 candidates or a best candidate without
\* end-position, exactly 1 when every candidate that has an end-position has
\* the one of the best candidate (also when no candidate has one), and
\* otherwise lies strictly between 0 and 1 and strictly decreases as the
\* mean distance of the candidates with an end-position to the best
\* end-position grows.
C29_ConvergenceOfPlacedCandidates ==
    (last = "RenderSidebar" /\ sidebar.val.convergence.computed)
    => LET v == sidebar.val.convergence.value.val
           list == SidebarExplorers(state).val
           best == SidebarFrameBest(state)
       IN  IF Len(list) < 2 \/ EndCell(best.val) = {}
           THEN v.num = 0
           ELSE IF \A i \in Placed(list) : EndCell(list[i]) = EndCell(best.val)
           THEN v.num = v.den
           ELSE /\ 0 < v.num /\ v.num < v.den
                /\ DecreasesWithMeanDistance(list, best)

\* a computed convergence of 1 for three candidates of which one is at the
\* best end-position and two have no end-position
C29_Witness ==
    /\ last = "RenderSidebar" /\ sidebar.val.convergence.computed
    /\ LET v == sidebar.val.convergence.value.val
           list == SidebarExplorers(state).val
       IN  /\ Len(list) = 3 /\ Cardinality(Placed(list)) = 1
           /\ v.num = v.den

\* ----------------------------------------------------- playback properties
\* C32: in every reachable state 0 <= currentStep <= max(0, history.length - 1),
\* so that the frame the Sidebar reads, history[currentStep], is the frame
\* the Canvas reads, history[min(currentStep, history.length - 1)].
C32_StepIndexInRange ==
    /\ state.currentStep >= 0
    /\ state.currentStep <= Max(0, HistLen - 1)
    /\ SidebarFrame(state) = frame(state)

\* the playback stands on the last frame of a history of several frames
C32_Witness ==
    /\ HistLen > 1
    /\ state.currentStep = HistLen - 1
    /\ last = "tick"

\* C33: playback of a solved run terminates: with ticks that keep firing
\* with positive elapsed time and nothing else intervening, the playback
\* eventually stands on the last frame with isRunning false, and every step
\* index from 0 to history.length - 1 has been the current step on the way.
C33_PlaybackTerminates ==
    /\ <>(~state.isRunning /\ state.currentStep = HistLen - 1)
    /\ \A k \in 0..(MaxHist - 1) : <>(k < HistLen => state.currentStep = k)
    /\ [][state'.currentStep \in {state.currentStep, state.currentStep + 1}]_vars

\* a history of several frames played to its end, the loop cancelled
C33_Witness ==
    /\ HistLen = MaxHist
    /\ ~state.isRunning
    /\ state.currentStep = HistLen - 1
    /\ ~rafOn

\* ------------------------------------------------------ request properties
\* C34: when runSolver has passed validation and fetched the maze it needs,
\* it goes on to issue the solve request or an error message is set: it
\* never returns with neither, whatever seed the maze service returned.
C34_RunSolverNeverReturnsSilently ==
    last = "runSolverReturn" => state.error # ""

\* C36: loading is true in every state in which a maze or solve request is
\* in flight, and false only when none is.
C36_LoadingWhileInFlight ==
    inflight # {} => state.loading

\* ------------------------------------------------------- reveal properties
\* the pass the Canvas has drawn, for a state with a maze
Image == canvas.val.image.val

\* every path of the pass is drawn from its first to its last point
DrawnInFull ==
    /\ \A i \in DOMAIN Image.explorers :
           LET path == explorers(state).val[i].path.val
           IN  /\ Image.explorers[i].segment = (IF Len(path) > 0 THEN Some(path) ELSE None)
               /\ Image.explorers[i].marker = ArrayAt(path, Len(path) - 1)
    /\ Image.bestPath = (IF Len(bestPath(state).val) > 0 THEN bestPath(state) ELSE None)

\* C35: whenever isRunning is false the renderer reveals with progress 1,
\* whatever frameProgress is stored, and every path of the active frame is
\* drawn in full; while isRunning is true the reveal progress is the stored
\* frameProgress.
C35_StoppedDrawsInFull ==
    (last = "draw" /\ canvas.val.image.some)
    => /\ ~state.isRunning => (Image.progress = ProgressOne /\ DrawnInFull)
       /\ state.isRunning => Image.progress = state.frameProgress

\* stopped in the middle of a step: the paths are drawn in full, where the
\* same step and frameProgress gave a shorter prefix while running
C35_Witness ==
    /\ last = "draw" /\ canvas.val.image.some
    /\ ~state.isRunning /\ state.frameProgress = 50
    /\ \E i \in DOMAIN Image.explorers : Len(Image.explorers[i].segment.val) = 3
    /\ DrawnInFull
    /\ LET running == drawMaze(state.maze, explorers(state).val, bestPath(state),
                               state.frameProgress, TRUE).val
       IN  /\ running.explorers # Image.explorers
           /\ running.bestPath # Image.bestPath

\* ------------------------------------------------- interference properties
\* the optional layers: the toggle of each and the layers its calls belong to
OptionalLayers ==
    {[toggle |-> "showPheromones", layers |-> {"pheromone"}],
     [toggle |-> "showHeatmap", layers |-> {"heat"}],
     [toggle |-> "showVelocities", layers |-> {"velocity"}],
     [toggle |-> "showTopPerformers", layers |-> {"top"}],
     [toggle |-> "showMetrics", layers |-> {"diversity", "convergence"}]}

Switched(args, toggle, on) ==
    IF toggle = "showMetrics"
    THEN [args EXCEPT !.showMetrics = Some(on)]
    ELSE [args EXCEPT ![toggle] = on]

OpsWith(args, toggle, on) ==
    drawMazeOnCanvas(DefaultContext, Switched(args, toggle, on)).ops

\* C37: layers do not interfere through the drawing context: turning one
\* optional layer on or off changes only that layer's drawing calls; every
\* context attribute a later call reads has the same value either way.
C37_LayersDoNotInterfere ==
    (canvas.some /\ canvas.val.args.maze # 0 /\ ~canvas.val.pass.threw)
    => \A layer \in OptionalLayers :
           OpsWith(canvas.val.args, layer.toggle, FALSE)
             = SelectSeq(OpsWith(canvas.val.args, layer.toggle, TRUE),
                         LAMBDA op : op.layer \notin layer.layers)

====
